---- MODULE Spec2Model ----
(***************************************************************************)
(* Model of the CroMedia cut pipeline (package core):                      *)
(*   Track[] + [t0,t1] --MultiTrackCutter--> Track[]' --Remuxer--> file    *)
(*                                                                         *)
(* Byte quantities (Sample.Size, Sample.Offset, file positions) are int64  *)
(* in the source and cross 2^31 and 2^32 in the cases of interest, so they *)
(* are kept as two-limb numbers <<hi, lo>> = hi * 2^16 + lo.  Times,       *)
(* durations and timescales stay plain integers.                           *)
(* Requested times are held in half seconds: for those values              *)
(* Duration.Seconds() * float64(timescale) is exact in float64.            *)
(***************************************************************************)
EXTENDS Integers, Sequences, FiniteSets, TLC

VARIABLES pc, tracks, startTime, endTime, fileSize, cutTracks, reports, out,
          fault, err, exists, moov, file, probeAtoms, pipe

vars == <<pc, tracks, startTime, endTime, fileSize, cutTracks, reports, out,
          fault, err, exists, moov, file, probeAtoms, pipe>>

(***************************************************************************)
(* Bounds of the generic specifications.                                   *)
(***************************************************************************)
MaxSamples == 3
MaxTracks == 2
MaxDur == 1
MaxHalfSec == 4
MaxRemuxSamples == 2
\* Samples handed to RunPipelined, and its workers.
MaxPipeSamples == 4
MaxWorkers == 2

(***************************************************************************)
(* Two-limb arithmetic for int64 byte counts.                              *)
(***************************************************************************)
Base == 2 ^ 16

W(n) == <<n \div Base, n % Base>>

WAdd(a, b) ==
    LET lo == a[2] + b[2]
    IN  <<a[1] + b[1] + (lo \div Base), lo % Base>>

WLess(a, b) == a[1] < b[1] \/ (a[1] = b[1] /\ a[2] < b[2])

WLeq(a, b) == ~WLess(b, a)

WSub(a, b) ==
    IF a[2] >= b[2] THEN <<a[1] - b[1], a[2] - b[2]>>
    ELSE <<a[1] - b[1] - 1, a[2] + Base - b[2]>>

WMin(a, b) == IF WLess(b, a) THEN b ELSE a

Uint32(a) == <<a[1] % Base, a[2]>>

Shr32(a) == <<0, a[1] \div Base>>

TwoTo31 == <<2 ^ 15, 0>>

RECURSIVE WSumTo(_, _)
WSumTo(s, k) == IF k = 0 THEN <<0, 0>> ELSE WAdd(WSumTo(s, k - 1), s[k])

WSum(s) == WSumTo(s, Len(s))

RECURSIVE SumTo(_, _)
SumTo(s, k) == IF k = 0 THEN 0 ELSE SumTo(s, k - 1) + s[k]

Sum(s) == SumTo(s, Len(s))

(***************************************************************************)
(* Data model: Sample and Track.                                           *)
(***************************************************************************)
TrackTypeVideo == "vide"
TrackTypeAudio == "soun"

\* The flat sample list the demuxer produces: 1-based ids, decode time the
\* running sum of the durations, offsets running inside one chunk at base.
MkSamples(durs, kfs, sizes, base) ==
    [i \in 1..Len(durs) |->
        [ID         |-> i,
         IsKeyframe |-> kfs[i],
         Offset     |-> WAdd(base, WSum(SubSeq(sizes, 1, i - 1))),
         Size       |-> sizes[i],
         Time       |-> Sum(SubSeq(durs, 1, i - 1)),
         Duration   |-> durs[i]]]

\* The hdlr payload: version/flags and pre_defined, the handler type, then
\* reserved bytes and the name; a byte slice is the sequence of its fields,
\* each with its width in bytes (w) and its value (v).
HdlrPayload(handler) ==
    <<[w |-> 8, v |-> <<0, 0>>], [w |-> 4, v |-> handler], [w |-> 13, v |-> <<0, 0>>]>>

\* The opaque payloads Stsd and MediaHeader are held by their byte length
\* (-1 for a nil MediaHeader).
MkTrack(type, timescale, duration, samples, cts) ==
    [ID          |-> 0,
     Type        |-> type,
     Timescale   |-> timescale,
     Duration    |-> duration,
     Samples     |-> samples,
     Stsd        |-> 16,
     Hdlr        |-> HdlrPayload(type),
     MediaHeader |-> IF type = TrackTypeVideo THEN 12 ELSE 8,
     Width       |-> IF type = TrackTypeVideo THEN 640 ELSE 0,
     Height      |-> IF type = TrackTypeVideo THEN 480 ELSE 0,
     CTSOffsets  |-> cts,
     EditList    |-> <<>>,
     MediaTimeOffset |-> 0]

First(t) == t.Samples[1]

Last(t) == t.Samples[Len(t.Samples)]

(***************************************************************************)
(* MultiTrackCutter.                                                       *)
(***************************************************************************)
\* timescale := int64(track.Timescale); if timescale == 0 { timescale = 1000 }
DefaultTimescale == 1000

EffTimescale(track) ==
    IF track.Timescale = 0 THEN DefaultTimescale ELSE track.Timescale

\* Variant of ToUnits that ignores the track's timescale (always 1000).
ToUnitsMillis(h, timescale) ==
    IF h >= 0 THEN (h * 1000) \div 2 ELSE -(((-h) * 1000) \div 2)

\* int64(t.Seconds() * float64(timescale)) for t = h half seconds: the float
\* product is exact and the conversion truncates toward zero.
ToUnits(h, timescale) ==
    IF h >= 0 THEN (h * timescale) \div 2 ELSE -(((-h) * timescale) \div 2)

\* Variant of StartCandidate with the comparison flipped (s.Time >= startUnits).
StartCandidateFlipped(track, s, startUnits) ==
    /\ s.Time >= startUnits
    /\ (track.Type = TrackTypeVideo => s.IsKeyframe)

\* "if s.Time <= startUnits { if video { if s.IsKeyframe {startIdx = i} }
\* else {startIdx = i} }": whether sample s moves startIdx.
StartCandidate(track, s, startUnits) ==
    /\ s.Time <= startUnits
    /\ (track.Type = TrackTypeVideo => s.IsKeyframe)

\* Variant of ReachedEnd that stops only strictly after endUnits.
ReachedEndStrict(s, endUnits) == s.Time > endUnits

\* "if s.Time >= endUnits { endIdx = i; break }"
ReachedEnd(s, endUnits) == s.Time >= endUnits

\* The 0-based index in [lo, hi) at which the loop breaks, -1 if it does not.
RECURSIVE BreakIndex(_, _, _, _)
BreakIndex(track, lo, hi, endUnits) ==
    IF lo >= hi THEN -1
    ELSE IF hi = lo + 1
         THEN IF ReachedEnd(track.Samples[lo + 1], endUnits) THEN lo ELSE -1
         ELSE LET mid  == (lo + hi) \div 2
                  left == BreakIndex(track, lo, mid, endUnits)
              IN  IF left # -1 THEN left
                  ELSE BreakIndex(track, mid, hi, endUnits)

\* The last assignment to startIdx among the iterations [lo, hi), -1 if none.
RECURSIVE LastStart(_, _, _, _)
LastStart(track, lo, hi, startUnits) ==
    IF lo >= hi THEN -1
    ELSE IF hi = lo + 1
         THEN IF StartCandidate(track, track.Samples[lo + 1], startUnits)
              THEN lo ELSE -1
         ELSE LET mid   == (lo + hi) \div 2
                  right == LastStart(track, mid, hi, startUnits)
              IN  IF right # -1 THEN right
                  ELSE LastStart(track, lo, mid, startUnits)

\* Variant of ScanSamples in which the search for startIdx does not stop
\* where the loop breaks.
ScanSamplesIndependent(track, startUnits, endUnits) ==
    [startIdx |-> LastStart(track, 0, Len(track.Samples), startUnits),
     endIdx   |-> BreakIndex(track, 0, Len(track.Samples), endUnits)]

\* The "Find cut points" loop over track.Samples: it runs the iterations
\* 0 .. endIdx (all of them when it never breaks); startIdx is the last
\* assignment made in them.
ScanSamples(track, startUnits, endUnits) ==
    LET n      == Len(track.Samples)
        endIdx == BreakIndex(track, 0, n, endUnits)
        ran    == IF endIdx = -1 THEN n ELSE endIdx + 1
    IN  [startIdx |-> LastStart(track, 0, ran, startUnits), endIdx |-> endIdx]

\* Cut points of one track after the fallbacks (0-based indices).
FindCutPoints(track, st, et) ==
    LET startUnits == ToUnits(st, EffTimescale(track))
        endUnits   == ToUnits(et, EffTimescale(track))
        found      == ScanSamples(track, startUnits, endUnits)
    IN  [startUnits |-> startUnits,
         endUnits   |-> endUnits,
         startIdx   |-> IF found.startIdx = -1 THEN 0 ELSE found.startIdx,
         endIdx     |-> IF found.endIdx = -1 THEN Len(track.Samples) - 1
                        ELSE found.endIdx]

\* "if startIdx > endIdx { ...; continue }"
EmptySlice(track, st, et) ==
    LET p == FindCutPoints(track, st, et) IN p.startIdx > p.endIdx

\* Variant of SliceSamples that renumbers the retained samples from 1.
SliceSamplesRenumbered(track, p) ==
    [i \in 1..(p.endIdx - p.startIdx + 1) |->
        [track.Samples[p.startIdx + i] EXCEPT !.ID = i]]

\* track.Samples[startIdx : endIdx+1]
SliceSamples(track, p) == SubSeq(track.Samples, p.startIdx + 1, p.endIdx + 1)

\* The CTSOffsets narrowing of CutWithReport.
SliceCTS(track, p) ==
    LET n == Len(track.CTSOffsets)
    IN  IF n > 0 /\ p.endIdx < n
        THEN SubSeq(track.CTSOffsets, p.startIdx + 1, p.endIdx + 1)
        ELSE IF n > 0
             THEN LET end == IF p.endIdx + 1 > n THEN n ELSE p.endIdx + 1
                  IN  IF p.startIdx < end
                      THEN SubSeq(track.CTSOffsets, p.startIdx + 1, end)
                      ELSE track.CTSOffsets
             ELSE track.CTSOffsets

CutTrackWithReport(track, st, et) ==
    LET p == FindCutPoints(track, st, et)
    IN  [track EXCEPT !.Samples = SliceSamples(track, p),
                      !.CTSOffsets = SliceCTS(track, p)]

\* The stand-alone Cut keeps CTSOffsets as they are.
CutTrack(track, st, et) ==
    LET p == FindCutPoints(track, st, et)
    IN  [track EXCEPT !.Samples = SliceSamples(track, p)]

\* CutReport, with the actual start and end kept in timescale units.
MkReport(track, st, et) ==
    LET p == FindCutPoints(track, st, et)
    IN  [TrackType       |-> track.Type,
         Timescale       |-> EffTimescale(track),
         RequestedStart  |-> st,
         ActualStart     |-> track.Samples[p.startIdx + 1].Time,
         RequestedEnd    |-> et,
         ActualEnd       |-> track.Samples[p.endIdx + 1].Time,
         SamplesIncluded |-> p.endIdx - p.startIdx + 1]

\* Indices (1-based positions in c.Tracks) of the tracks that are retained.
RECURSIVE Retained(_, _, _)
Retained(ts, st, et) ==
    IF ts = <<>> THEN <<>>
    ELSE LET n    == Len(ts)
             rest == Retained(SubSeq(ts, 1, n - 1), st, et)
         IN  IF EmptySlice(ts[n], st, et) THEN rest ELSE Append(rest, n)

CutWithReport ==
    /\ pc = "loaded"
    /\ LET keep == Retained(tracks, startTime, endTime)
       IN  /\ cutTracks' = [k \in 1..Len(keep) |->
                  CutTrackWithReport(tracks[keep[k]], startTime, endTime)]
           /\ reports' = [k \in 1..Len(keep) |->
                  MkReport(tracks[keep[k]], startTime, endTime)]
    /\ pc' = "cut"
    /\ UNCHANGED <<tracks, startTime, endTime, fileSize, out, fault, err, exists, moov,
                 file, probeAtoms, pipe>>

Cut ==
    /\ pc = "loaded"
    /\ LET keep == Retained(tracks, startTime, endTime)
       IN  cutTracks' = [k \in 1..Len(keep) |->
               CutTrack(tracks[keep[k]], startTime, endTime)]
    /\ pc' = "cut"
    /\ UNCHANGED <<tracks, startTime, endTime, fileSize, reports, out, fault, err, exists,
                 moov, file, probeAtoms, pipe>>

(***************************************************************************)
(* Remuxer: atoms and their serialisation.                                 *)
(*                                                                         *)
(* An ExcludeBuffer is the sequence of the fields written to it, each with *)
(* its width in bytes (w) and its value (v); raw payloads and tags carry   *)
(* value 0.  A SimpleAtom is [Type, Data, Children].                       *)
(***************************************************************************)
\* WriteUint32(uint32(x)) for a two-limb x
Field32(x) == [w |-> 4, v |-> Uint32(x)]

\* WriteUint32 / WriteUint16 of a small non-negative integer
WriteUint32(n) == [w |-> 4, v |-> W(n)]

WriteUint16(n) == [w |-> 2, v |-> W(n)]

\* uint32(x) of a signed 32-bit integer (two's complement)
WriteInt32(n) == [w |-> 4, v |-> IF n >= 0 THEN W(n) ELSE WSub(<<Base, 0>>, W(-n))]

\* WriteBytes / WriteTag of n raw bytes
WriteBytes(n) == [w |-> n, v |-> <<0, 0>>]

DataLen(data) == Sum([i \in 1..Len(data) |-> data[i].w])

Leaf(type, data) == [Type |-> type, Data |-> data, Children |-> <<>>]

Node(type, children) == [Type |-> type, Data |-> <<>>, Children |-> children]

\* len(serializeAtom(atom)) = 8 + len(atom.Data) + len(childBytes)
RECURSIVE SerializedLen(_), ChildrenLen(_, _)
SerializedLen(atom) ==
    8 + DataLen(atom.Data) + ChildrenLen(atom.Children, Len(atom.Children))

ChildrenLen(children, k) ==
    IF k = 0 THEN 0
    ELSE ChildrenLen(children, k - 1) + SerializedLen(children[k])

\* identityMatrix(): 36 bytes
IdentityMatrixLen == 36

\* val * toScale / fromScale, 0 when fromScale = 0
convertTime(val, fromScale, toScale) ==
    IF fromScale = 0 THEN 0 ELSE (val * toScale) \div fromScale

(***************************************************************************)
(* buildInterleavedOrder.                                                  *)
(***************************************************************************)
\* float64(s.Time) / ts, kept as the exact fraction num / den
TimeSeconds(track, s) ==
    [num |-> s.Time, den |-> IF track.Timescale = 0 THEN 1000 ELSE track.Timescale]

\* All samples of all tracks, track after track, in sample order.
RECURSIVE AllSamples(_, _)
AllSamples(trks, ti) ==
    IF ti >= Len(trks) THEN <<>>
    ELSE [si \in 1..Len(trks[ti + 1].Samples) |->
             [TrackIndex  |-> ti,
              SampleIndex |-> si - 1,
              TimeSeconds |-> TimeSeconds(trks[ti + 1], trks[ti + 1].Samples[si]),
              Sample      |-> trks[ti + 1].Samples[si]]]
         \o AllSamples(trks, ti + 1)

TimeEq(a, b) == a.num * b.den = b.num * a.den

TimeLt(a, b) == a.num * b.den < b.num * a.den

\* Variant of InterleaveLess that compares raw decode times, not seconds.
InterleaveLessRaw(a, b) ==
    IF a.Sample.Time # b.Sample.Time
    THEN a.Sample.Time < b.Sample.Time
    ELSE a.TrackIndex < b.TrackIndex

\* The less function handed to sort.SliceStable.
InterleaveLess(a, b) ==
    IF ~TimeEq(a.TimeSeconds, b.TimeSeconds)
    THEN TimeLt(a.TimeSeconds, b.TimeSeconds)
    ELSE a.TrackIndex < b.TrackIndex

\* Stable insertion: x goes before the first element it is less than.
RECURSIVE InsertStable(_, _)
InsertStable(x, sorted) ==
    IF sorted = <<>> THEN <<x>>
    ELSE IF InterleaveLess(x, Head(sorted)) THEN <<x>> \o sorted
         ELSE <<Head(sorted)>> \o InsertStable(x, Tail(sorted))

RECURSIVE SliceStable(_)
SliceStable(all) ==
    IF all = <<>> THEN <<>>
    ELSE InsertStable(all[Len(all)], SliceStable(SubSeq(all, 1, Len(all) - 1)))

buildInterleavedOrder(trks) == SliceStable(AllSamples(trks, 0))

(***************************************************************************)
(* makeTrakAtom and makeMoovMultiTrackWithOffsets.                         *)
(***************************************************************************)
\* trackOffsets[ti][si]: offsets[i] of the interleaved entry (ti, si); a
\* missing map key reads as 0.
SampleOffset(interleaved, offsets, ti, si) ==
    LET hits == {i \in 1..Len(interleaved) :
                    /\ interleaved[i].TrackIndex = ti
                    /\ interleaved[i].SampleIndex = si}
    IN  IF hits = {} THEN <<0, 0>>
        ELSE offsets[CHOOSE i \in hits : \A j \in hits : j <= i]

RECURSIVE FlattenTo(_, _)
FlattenTo(ss, k) == IF k = 0 THEN <<>> ELSE FlattenTo(ss, k - 1) \o ss[k]

Flatten(ss) == FlattenTo(ss, Len(ss))

Keyframes(t) ==
    LET idx == {i \in 1..Len(t.Samples) : t.Samples[i].IsKeyframe}
        RECURSIVE Asc(_, _)
        Asc(i, acc) ==
            IF i > Len(t.Samples) THEN acc
            ELSE Asc(i + 1, IF i \in idx THEN Append(acc, i) ELSE acc)
    IN  Asc(1, <<>>)

TotalDur(t) == Sum([i \in 1..Len(t.Samples) |-> t.Samples[i].Duration])

makeTrakAtom(t, trackID, sampleOffsets, useCo64) ==
    LET numSamples == Len(t.Samples)
        stts == Leaf("stts",
                    <<WriteUint32(0), WriteUint32(numSamples)>>
                    \o Flatten([i \in 1..numSamples |->
                          <<WriteUint32(1), WriteUint32(t.Samples[i].Duration)>>]))
        stsz == Leaf("stsz",
                    <<WriteUint32(0), WriteUint32(0), WriteUint32(numSamples)>>
                    \o [i \in 1..numSamples |-> Field32(t.Samples[i].Size)])
        chunkOffsetAtom ==
            IF useCo64
            THEN Leaf("co64",
                    <<WriteUint32(0), WriteUint32(numSamples)>>
                    \o Flatten([i \in 1..numSamples |->
                          <<Field32(Shr32(sampleOffsets[i])),
                            Field32(sampleOffsets[i])>>]))
            ELSE Leaf("stco",
                    <<WriteUint32(0), WriteUint32(numSamples)>>
                    \o [i \in 1..numSamples |-> Field32(sampleOffsets[i])])
        stsc == Leaf("stsc",
                    <<WriteUint32(0), WriteUint32(1), WriteUint32(1),
                      WriteUint32(1), WriteUint32(1)>>)
        keyframes == Keyframes(t)
        stss == Leaf("stss",
                    <<WriteUint32(0), WriteUint32(Len(keyframes))>>
                    \o [i \in 1..Len(keyframes) |-> WriteUint32(keyframes[i])])
        ctts == Leaf("ctts",
                    <<WriteUint32(0), WriteUint32(Len(t.CTSOffsets))>>
                    \o Flatten([i \in 1..Len(t.CTSOffsets) |->
                          <<WriteUint32(1), WriteInt32(t.CTSOffsets[i])>>]))
        stbl == Node("stbl",
                    <<Leaf("stsd", <<WriteBytes(t.Stsd)>>), stts, stsz,
                      chunkOffsetAtom, stsc>>
                    \o (IF t.Type = TrackTypeVideo THEN <<stss>> ELSE <<>>)
                    \o (IF Len(t.CTSOffsets) > 0 THEN <<ctts>> ELSE <<>>))
        dinf == Node("dinf", <<Leaf("dref", <<WriteBytes(20)>>)>>)
        minf == Node("minf",
                    (IF t.MediaHeader >= 0
                     THEN <<Leaf(IF t.Type = TrackTypeAudio THEN "smhd" ELSE "vmhd",
                                 <<WriteBytes(t.MediaHeader)>>)>>
                     ELSE <<>>)
                    \o <<dinf, stbl>>)
        totalDur == TotalDur(t)
        mdhd == Leaf("mdhd",
                    <<WriteUint32(0), WriteUint32(0), WriteUint32(0),
                      WriteUint32(t.Timescale), WriteUint32(totalDur),
                      WriteUint16(21956), WriteUint16(0)>>)
        mdia == Node("mdia",
                    <<mdhd, Leaf("hdlr", t.Hdlr), minf>>)
        tkhd == Leaf("tkhd",
                    <<WriteUint32(3), WriteUint32(0), WriteUint32(0),
                      WriteUint32(trackID), WriteUint32(0),
                      WriteUint32(convertTime(totalDur, t.Timescale, 1000)),
                      WriteUint32(0), WriteUint32(0),
                      WriteUint16(0), WriteUint16(0),
                      WriteUint16(IF t.Type = TrackTypeAudio THEN 256 ELSE 0),
                      WriteUint16(0), WriteBytes(IdentityMatrixLen),
                      WriteUint32(t.Width), WriteUint32(t.Height)>>)
        elst == Leaf("elst",
                    <<WriteUint32(0), WriteUint32(Len(t.EditList))>>
                    \o Flatten([i \in 1..Len(t.EditList) |->
                          <<WriteUint32(t.EditList[i].SegmentDuration),
                            WriteInt32(t.EditList[i].MediaTime),
                            WriteUint16(t.EditList[i].MediaRateInt),
                            WriteUint16(t.EditList[i].MediaRateFrac)>>]))
    IN  Node("trak",
            <<tkhd>>
            \o (IF Len(t.EditList) > 0 THEN <<Node("edts", <<elst>>)>> ELSE <<>>)
            \o <<mdia>>)

\* maxDuration: the largest dur, starting from int64(0)
RECURSIVE MaxTo(_, _)
MaxTo(s, k) ==
    IF k = 0 THEN 0
    ELSE LET m == MaxTo(s, k - 1) IN IF s[k] > m THEN s[k] ELSE m

MaxOf(s) == MaxTo(s, Len(s))

makeMoovMultiTrackWithOffsets(trks, interleaved, offsets, useCo64) ==
    LET traks == [i \in 1..Len(trks) |->
                    makeTrakAtom(trks[i], i,
                        [si \in 1..Len(trks[i].Samples) |->
                            SampleOffset(interleaved, offsets, i - 1, si - 1)],
                        useCo64)]
        maxDuration == MaxOf([i \in 1..Len(trks) |->
                          convertTime(TotalDur(trks[i]), trks[i].Timescale, 1000)])
        mvhd == Leaf("mvhd",
                    <<WriteUint32(0), WriteUint32(0), WriteUint32(0),
                      WriteUint32(1000), WriteUint32(maxDuration),
                      WriteUint32(65536), WriteUint16(256), WriteBytes(10),
                      WriteBytes(IdentityMatrixLen), WriteBytes(24),
                      WriteUint32(Len(trks) + 1)>>)
    IN  Node("moov", <<mvhd>> \o traks)

\* Variant of makeMoovMultiTrack whose placeholder always uses 32-bit offsets.
makeMoovMultiTrackStco(trks, interleaved, baseOffset, useCo64) ==
    makeMoovMultiTrackWithOffsets(trks, interleaved,
        [i \in 1..Len(interleaved) |-> baseOffset], FALSE)

\* makeMoovMultiTrack: every offset is baseOffset
makeMoovMultiTrack(trks, interleaved, baseOffset, useCo64) ==
    makeMoovMultiTrackWithOffsets(trks, interleaved,
        [i \in 1..Len(interleaved) |-> baseOffset], useCo64)

(***************************************************************************)
(* Remuxer.WriteMultiTrackFile.                                            *)
(***************************************************************************)
FtypSize == 24

MdatHeaderSize == 8

\* mdatDataSize: the sum of is.Sample.Size over the interleaved order
MdatDataSize(interleaved) ==
    WSum([i \in 1..Len(interleaved) |-> interleaved[i].Sample.Size])

\* Variant of UseCo64 with the threshold at 1 << 32.
UseCo64At4G(interleaved) == WLess(<<Base, 0>>, MdatDataSize(interleaved))

\* useCo64 := mdatDataSize > (1 << 31)
UseCo64(interleaved) == WLess(TwoTo31, MdatDataSize(interleaved))

\* mdatStartPos := ftypSize + len(dummyBytes) + 8
MdatStartPos(trks, interleaved) ==
    W(FtypSize
      + SerializedLen(makeMoovMultiTrack(trks, interleaved, <<0, 0>>,
                                         UseCo64(interleaved)))
      + MdatHeaderSize)

\* offsets[i] = mdatStartPos + the sizes of the samples before i
ComputeOffsets(mdatStartPos, interleaved) ==
    [i \in 1..Len(interleaved) |->
        WAdd(mdatStartPos,
             WSum([j \in 1..(i - 1) |-> interleaved[j].Sample.Size]))]

\* Seek(is.Sample.Offset) then io.CopyBuffer(out, io.LimitReader(InputFile,
\* is.Sample.Size)): the bytes copied stop at the end of the input, which is
\* not an error for the copy.
CopySample(s, inputSize) ==
    [src |-> s.Offset,
     len |-> IF WLeq(inputSize, s.Offset) THEN <<0, 0>>
             ELSE WMin(s.Size, WSub(inputSize, s.Offset))]

\* The I/O operation of WriteMultiTrackFile that the environment fails:
\* none, os.Create, or the Seek or the copy of the at-th sample written.
NoFault == [op |-> "none", at |-> 0]

\* 1-based position in the interleaved order of the sample whose Seek or
\* copy returns an error, 0 when every sample is copied.
FailsAt(flt, interleaved) ==
    IF flt.op \in {"seek", "copy"} /\ flt.at <= Len(interleaved) THEN flt.at ELSE 0

\* err is the returned error ("nil" for none), exists tells whether a file
\* is at the output path after the return; the function never removes it.
WriteMultiTrackFile ==
    /\ pc = "cut"
    /\ IF fault.op = "create"
       THEN /\ err' = "create"
            /\ exists' = FALSE
            /\ out' = out
       ELSE LET interleaved == buildInterleavedOrder(cutTracks)
                useCo64     == UseCo64(interleaved)
                mdatStartPos == MdatStartPos(cutTracks, interleaved)
                offsets     == ComputeOffsets(mdatStartPos, interleaved)
                realMoov    == makeMoovMultiTrackWithOffsets(cutTracks, interleaved,
                                                             offsets, useCo64)
                failAt      == FailsAt(fault, interleaved)
                copied      == IF failAt = 0 THEN Len(interleaved) ELSE failAt - 1
            IN  /\ out' = [ftyp  |-> <<WriteUint32(FtypSize), WriteBytes(4),
                                       WriteBytes(4), WriteUint32(512),
                                       WriteBytes(4), WriteBytes(4)>>,
                           moov  |-> realMoov,
                           mdat  |-> <<Field32(WAdd(MdatDataSize(interleaved),
                                                    W(MdatHeaderSize))),
                                       WriteBytes(4)>>,
                           body  |-> [i \in 1..copied |->
                                         CopySample(interleaved[i].Sample, fileSize)]]
                /\ err' = IF failAt = 0 THEN "nil" ELSE fault.op
                /\ exists' = TRUE
    /\ pc' = IF err' = "nil" THEN "written" ELSE "failed"
    /\ UNCHANGED <<tracks, startTime, endTime, fileSize, cutTracks, reports, fault,
                   moov, file, probeAtoms, pipe>>

Next == CutWithReport \/ Cut \/ WriteMultiTrackFile

(***************************************************************************)
(* Initial states: the tracks handed to the cutter, the requested window   *)
(* and the size of the input file.                                         *)
(***************************************************************************)
\* No atom (a nil *Atom).
NoAtom == Node("none", <<>>)

\* No pipeline: the state of RunPipelined in a run that does not call it.
NoPipe == [state |-> "none"]

\* No input bytes: the file of a run that starts from tracks or from atoms.
NoFile == [boxes |-> <<>>, data |-> <<>>, size |-> 0]

NoOut == [ftyp |-> <<>>, moov |-> NoAtom, mdat |-> <<>>, body |-> <<>>]

\* End of the last sample in the input file.
RECURSIVE WMaxTo(_, _)
WMaxTo(s, k) ==
    IF k = 0 THEN <<0, 0>>
    ELSE LET m == WMaxTo(s, k - 1) IN IF WLess(m, s[k]) THEN s[k] ELSE m

WMaxOf(s) == WMaxTo(s, Len(s))

InputEnd(trks) ==
    LET all == AllSamples(trks, 0)
    IN  WMaxOf([i \in 1..Len(all) |-> WAdd(all[i].Sample.Offset, all[i].Sample.Size)])

\* Track k of the input keeps its samples in one chunk at offset 4096 * k.
ChunkBase(k) == W(4096 * k)

Rebase(trk, k) ==
    [trk EXCEPT !.Samples =
        [i \in 1..Len(trk.Samples) |->
            [trk.Samples[i] EXCEPT !.Offset =
                WAdd(ChunkBase(k), WSum([j \in 1..(i - 1) |-> trk.Samples[j].Size]))]]]

\* Track lists of 1 .. MaxTracks tracks: a track of first, then tracks of
\* others, laid out in the input one chunk after the other.
TrackLists(first, others) ==
    UNION {{[k \in 1..n |-> Rebase(IF k = 1 THEN f ELSE g[k], k)] :
               f \in first, g \in [1..n -> others]} :
           n \in 1..MaxTracks}

\* A track of n samples of one duration d.
UniformTrack(ty, ts, n, d, kf, sizes) ==
    MkTrack(ty, ts, n * d, MkSamples([i \in 1..n |-> d], kf, sizes, <<0, 0>>), <<>>)

\* The keyframe flags of a track whose first sample is its only keyframe.
FirstOnly(n) == [i \in 1..n |-> i = 1]

\* Cutter inputs: a first track of any type and timescale, video with every
\* keyframe pattern (audio samples are all sync samples), followed by audio
\* tracks of two samples.
CutTrackSet ==
    UNION {UNION {{UniformTrack(ty, ts, n, d, kf, [i \in 1..n |-> W(100)]) :
                      ts \in {0, 1, 2},
                      d \in 0..MaxDur,
                      kf \in {f \in [1..n -> BOOLEAN] :
                                 ty = TrackTypeAudio => \A i \in 1..n : f[i]}} :
                  ty \in {TrackTypeVideo, TrackTypeAudio}} :
           n \in 0..MaxSamples}

CompanionTrackSet ==
    {UniformTrack(TrackTypeAudio, 2, 2, 1, <<TRUE, TRUE>>, <<W(100), W(100)>>)}

InitCut ==
    /\ pc = "loaded"
    /\ tracks \in TrackLists(CutTrackSet, CompanionTrackSet)
    /\ startTime \in -1..MaxHalfSec
    /\ endTime \in -1..MaxHalfSec
    /\ fileSize = InputEnd(tracks)
    /\ cutTracks = <<>>
    /\ reports = <<>>
    /\ out = NoOut
    /\ fault = NoFault
    /\ err = "nil"
    /\ exists = FALSE
    /\ pipe = NoPipe
    /\ file = NoFile
    /\ probeAtoms = <<>>
    /\ moov = NoAtom

NextCut == CutWithReport \/ Cut

SpecCut == InitCut /\ [][NextCut]_vars

\* Remuxer inputs: a video track of timescale 1 and audio tracks of
\* timescale 2, the first sample of a track its only keyframe; sample i of a
\* track has size 100 * i.
RemuxTrackSet(ty, ts) ==
    {UniformTrack(ty, ts, n, d, FirstOnly(n), [i \in 1..n |-> W(100 * i)]) :
        n \in 0..MaxRemuxSamples, d \in 0..MaxDur}

\* The input file holds every sample, or has lost its last byte.
FileSizes(trks) ==
    LET e == InputEnd(trks)
    IN  {e} \cup (IF e = <<0, 0>> THEN {} ELSE {WSub(e, <<0, 1>>)})

Init ==
    /\ pc = "loaded"
    /\ tracks \in TrackLists(RemuxTrackSet(TrackTypeVideo, 1), RemuxTrackSet(TrackTypeAudio, 2))
    /\ startTime = 0
    /\ endTime \in {1, MaxHalfSec}
    /\ fileSize \in FileSizes(tracks)
    /\ cutTracks = <<>>
    /\ reports = <<>>
    /\ out = NoOut
    /\ fault = NoFault
    /\ err = "nil"
    /\ exists = FALSE
    /\ pipe = NoPipe
    /\ file = NoFile
    /\ probeAtoms = <<>>
    /\ moov = NoAtom

Spec == Init /\ [][Next]_vars

\* Large payloads: samples of 100 bytes, 1 GiB and 2 GiB, so that the total
\* lies below, at and above 1 << 31.
LargeSizes == {W(100), <<2 ^ 14, 0>>, <<2 ^ 15, 0>>}

LargeTrackSet(ty) ==
    {UniformTrack(ty, 1, n, 1, FirstOnly(n), [i \in 1..n |-> sz]) :
        n \in 1..MaxRemuxSamples, sz \in LargeSizes}

InitLarge ==
    /\ pc = "loaded"
    /\ tracks \in TrackLists(LargeTrackSet(TrackTypeVideo), LargeTrackSet(TrackTypeAudio))
    /\ startTime = 0
    /\ endTime \in {1, MaxHalfSec}
    /\ fileSize = InputEnd(tracks)
    /\ cutTracks = <<>>
    /\ reports = <<>>
    /\ out = NoOut
    /\ fault = NoFault
    /\ err = "nil"
    /\ exists = FALSE
    /\ pipe = NoPipe
    /\ file = NoFile
    /\ probeAtoms = <<>>
    /\ moov = NoAtom

SpecLarge == InitLarge /\ [][Next]_vars

\* Environments in which one I/O operation of the remuxer fails.
Faults ==
    {NoFault, [op |-> "create", at |-> 0]}
        \cup {[op |-> o, at |-> k] : o \in {"seek", "copy"}, k \in 1..MaxRemuxSamples}

InitFault ==
    /\ pc = "loaded"
    /\ tracks \in TrackLists(RemuxTrackSet(TrackTypeVideo, 1), RemuxTrackSet(TrackTypeAudio, 2))
    /\ startTime = 0
    /\ endTime = MaxHalfSec
    /\ fileSize = InputEnd(tracks)
    /\ cutTracks = <<>>
    /\ reports = <<>>
    /\ out = NoOut
    /\ fault \in Faults
    /\ err = "nil"
    /\ exists = FALSE
    /\ pipe = NoPipe
    /\ file = NoFile
    /\ probeAtoms = <<>>
    /\ moov = NoAtom

SpecFault == InitFault /\ [][Next]_vars

(***************************************************************************)
(* Scenario inputs.                                                        *)
(***************************************************************************)
\* S2: video, timescale 600, one sample every 40 ticks, keyframes at sample
\* ids 1, 61 and 121.
S2Track ==
    MkTrack(TrackTypeVideo, 600, 6000,
            [i \in 1..150 |->
                [ID |-> i, IsKeyframe |-> i \in {1, 61, 121},
                 Offset |-> W(4096 + 100 * (i - 1)), Size |-> W(100),
                 Time |-> 40 * (i - 1), Duration |-> 40]],
            <<>>)

\* S3: audio, timescale 48000, 500 samples of duration 1024.
S3Track ==
    MkTrack(TrackTypeAudio, 48000, 512000,
            [i \in 1..500 |->
                [ID |-> i, IsKeyframe |-> TRUE,
                 Offset |-> W(4096 + 100 * (i - 1)), Size |-> W(100),
                 Time |-> 1024 * (i - 1), Duration |-> 1024]],
            <<>>)

\* Requested times of the scenarios: 0 s to 6 s in half seconds.
ScenarioHalfSecs == 0..12

InitScenario(trk) ==
    /\ pc = "loaded"
    /\ tracks = <<trk>>
    /\ startTime \in ScenarioHalfSecs
    /\ endTime \in ScenarioHalfSecs
    /\ fileSize = WAdd(Last(trk).Offset, Last(trk).Size)
    /\ cutTracks = <<>>
    /\ reports = <<>>
    /\ out = NoOut
    /\ fault = NoFault
    /\ err = "nil"
    /\ exists = FALSE
    /\ pipe = NoPipe
    /\ file = NoFile
    /\ probeAtoms = <<>>
    /\ moov = NoAtom

InitS2 == InitScenario(S2Track)

SpecS2 == InitS2 /\ [][NextCut]_vars

InitS3 == InitScenario(S3Track)

SpecS3 == InitS3 /\ [][NextCut]_vars

(***************************************************************************)
(* Properties of the cutter.                                               *)
(***************************************************************************)
\* The input track behind the k-th returned track.
SourceOf(k) == tracks[Retained(tracks, startTime, endTime)[k]]

StartUnitsOf(t) == ToUnits(startTime, EffTimescale(t))

EndUnitsOf(t) == ToUnits(endTime, EffTimescale(t))

\* 0-based indices of the samples that qualify as a start for startUnits.
Qualifying(t, startUnits) ==
    {i \in 0..(Len(t.Samples) - 1) :
        /\ t.Samples[i + 1].Time <= startUnits
        /\ (t.Type = TrackTypeVideo => t.Samples[i + 1].IsKeyframe)}

LatestQualifying(t, startUnits) ==
    LET q == Qualifying(t, startUnits)
    IN  IF q = {} THEN 0 ELSE CHOOSE i \in q : \A j \in q : j <= i

\* C1: every video track returned by the cut starts with a keyframe.
C1_KeyframeStart ==
    pc = "cut" =>
        \A k \in 1..Len(cutTracks) :
            cutTracks[k].Type = TrackTypeVideo => First(cutTracks[k]).IsKeyframe

\* C2: the start index of every track is the latest qualifying sample at or
\* before start_units (keyframes only for video), 0 when there is none,
\* wherever end_units lies.
C2_StartIndex ==
    pc = "cut" =>
        \A k \in 1..Len(cutTracks) :
            First(cutTracks[k]).ID =
                LatestQualifying(SourceOf(k), StartUnitsOf(SourceOf(k))) + 1

\* C3: the window of every retained track contains the requested range: its
\* first sample is at or before start_units or is the first of the source,
\* its last sample is at or after end_units - its duration or is the last
\* of the source.
C3_WindowContainment ==
    pc = "cut" =>
        \A k \in 1..Len(cutTracks) :
            LET src == SourceOf(k)
                f   == First(cutTracks[k])
                l   == Last(cutTracks[k])
            IN  /\ (f.Time <= StartUnitsOf(src) \/ f.ID = First(src).ID)
                /\ (l.Time >= EndUnitsOf(src) - l.Duration \/ l.ID = Last(src).ID)

\* A retained window that starts after the first and ends before the last
\* sample of its source.
C3_Witness ==
    /\ pc = "cut"
    /\ \E k \in 1..Len(cutTracks) :
          /\ First(cutTracks[k]).ID > First(SourceOf(k)).ID
          /\ Last(cutTracks[k]).ID < Last(SourceOf(k)).ID

\* Both requested times lie beyond the last decode time of every track.
WindowBeyondEnd ==
    \A i \in 1..Len(tracks) :
        \A j \in 1..Len(tracks[i].Samples) :
            /\ tracks[i].Samples[j].Time < StartUnitsOf(tracks[i])
            /\ tracks[i].Samples[j].Time < EndUnitsOf(tracks[i])

\* C4: when the window lies beyond the end of every track, every track is an
\* empty cut and no track is returned.
C4_EmptyCutBeyondEnd ==
    (pc = "cut" /\ WindowBeyondEnd) => cutTracks = <<>>

\* C5 (as stated): cut(2.5 s, 5.0 s) of the S2 track gives start_units 1500,
\* end_units 3000, first sample id 61 at 2400 and last sample id 76 at 3000.
C5_S2AsStated ==
    (pc = "cut" /\ startTime = 5 /\ endTime = 10) =>
        /\ Len(cutTracks) = 1
        /\ StartUnitsOf(tracks[1]) = 1500
        /\ EndUnitsOf(tracks[1]) = 3000
        /\ First(cutTracks[1]).ID = 61
        /\ First(cutTracks[1]).Time = 2400
        /\ Last(cutTracks[1]).ID = 76
        /\ Last(cutTracks[1]).Time = 3000

\* C5 (amended): cut(2.5 s, 5.0 s) of the S2 track gives start_units 1500,
\* end_units 3000, and the window runs from the keyframe with id 1 (decode
\* time 0, the latest keyframe at or before 1500) to the sample with id 76
\* (decode time 3000).
C5_S2KeyframeSnap ==
    (pc = "cut" /\ startTime = 5 /\ endTime = 10) =>
        /\ Len(cutTracks) = 1
        /\ StartUnitsOf(tracks[1]) = 1500
        /\ EndUnitsOf(tracks[1]) = 3000
        /\ First(cutTracks[1]).ID = 1
        /\ First(cutTracks[1]).Time = 0
        /\ First(cutTracks[1]).IsKeyframe
        /\ Last(cutTracks[1]).ID = 76
        /\ Last(cutTracks[1]).Time = 3000

C5_Witness ==
    /\ pc = "cut" /\ startTime = 5 /\ endTime = 10
    /\ tracks = <<S2Track>>
    /\ Len(cutTracks) = 1 /\ Len(cutTracks[1].Samples) = 76

\* C6 (as stated): cut(1.0 s, 2.0 s) of the S3 track gives start_units 48000,
\* end_units 96000, start index 46 at 47104 and end index 93 at 95232.
C6_S3AsStated ==
    (pc = "cut" /\ startTime = 2 /\ endTime = 4) =>
        /\ Len(cutTracks) = 1
        /\ StartUnitsOf(tracks[1]) = 48000
        /\ EndUnitsOf(tracks[1]) = 96000
        /\ First(cutTracks[1]).ID = 46 + 1
        /\ First(cutTracks[1]).Time = 47104
        /\ Last(cutTracks[1]).ID = 93 + 1
        /\ Last(cutTracks[1]).Time = 95232

\* C6 (amended): cut(1.0 s, 2.0 s) of the S3 track gives start_units 48000,
\* end_units 96000, start index 46 at 47104 and end index 94 at 96256: the
\* last retained sample is the first one at or after end_units.
C6_S3AudioCut ==
    (pc = "cut" /\ startTime = 2 /\ endTime = 4) =>
        /\ Len(cutTracks) = 1
        /\ StartUnitsOf(tracks[1]) = 48000
        /\ EndUnitsOf(tracks[1]) = 96000
        /\ First(cutTracks[1]).ID = 46 + 1
        /\ First(cutTracks[1]).Time = 47104
        /\ Last(cutTracks[1]).ID = 94 + 1
        /\ Last(cutTracks[1]).Time = 96256

C6_Witness ==
    /\ pc = "cut" /\ startTime = 2 /\ endTime = 4
    /\ tracks = <<S3Track>>
    /\ Len(cutTracks) = 1 /\ Len(cutTracks[1].Samples) = 49

(***************************************************************************)
(* Reading the written file back.                                          *)
(***************************************************************************)
HasChild(atom, type) == \E i \in 1..Len(atom.Children) : atom.Children[i].Type = type

\* The first child of the given type.
FindChild(atom, type) ==
    atom.Children[CHOOSE i \in 1..Len(atom.Children) :
                      /\ atom.Children[i].Type = type
                      /\ \A j \in 1..(i - 1) : atom.Children[j].Type # type]

\* trak number ti (0-based) of the written moov, after mvhd.
TrakOf(ti) == out.moov.Children[ti + 2]

StblOf(ti) == FindChild(FindChild(FindChild(TrakOf(ti), "mdia"), "minf"), "stbl")

\* The chunk-offset entries of a written stco / co64 table, as numbers.
StcoEntries(atom) == [i \in 1..(Len(atom.Data) - 2) |-> atom.Data[i + 2].v]

Co64Entries(atom) ==
    [i \in 1..((Len(atom.Data) - 2) \div 2) |->
        LET hi == atom.Data[2 * i + 1].v
            lo == atom.Data[2 * i + 2].v
        IN  <<hi[2] * Base + lo[1], lo[2]>>]

RecordedOffsets(ti) ==
    IF HasChild(StblOf(ti), "co64") THEN Co64Entries(FindChild(StblOf(ti), "co64"))
    ELSE StcoEntries(FindChild(StblOf(ti), "stco"))

\* Position in the output at which the k-th copied extent begins.
BodyPos(k) ==
    WAdd(W(DataLen(out.ftyp) + SerializedLen(out.moov) + DataLen(out.mdat)),
         WSum([j \in 1..(k - 1) |-> out.body[j].len]))

\* The interleaved order of the tracks handed to the remuxer.
Interleaved == buildInterleavedOrder(cutTracks)

\* 24 + M + 8 + the sizes of the samples before the k-th of the order.
ExpectedOffset(il, k) ==
    WAdd(W(24 + SerializedLen(out.moov) + 8),
         WSum([j \in 1..(k - 1) |-> il[j].Sample.Size]))

\* The sample's source range lies inside the input file.
InInput(s) == WLeq(WAdd(s.Offset, s.Size), fileSize)

(***************************************************************************)
(* Properties of the remuxer.                                              *)
(***************************************************************************)
\* C7: the chunk offset recorded for the i-th sample of the interleaved order
\* is 24 + M + 8 + the sizes of the earlier samples, the bytes of the sample
\* are written at exactly that position, and they are the size bytes at the
\* sample's source offset (for a sample whose source range the input holds).
C7_OffsetsAndBytes ==
    pc = "written" =>
        LET il == Interleaved
        IN  \A k \in 1..Len(il) :
                /\ RecordedOffsets(il[k].TrackIndex)[il[k].SampleIndex + 1]
                       = ExpectedOffset(il, k)
                /\ BodyPos(k) = ExpectedOffset(il, k)
                /\ out.body[k].src = il[k].Sample.Offset
                /\ (InInput(il[k].Sample) => out.body[k].len = il[k].Sample.Size)

\* C8: for either offset width the placeholder moov and the real moov have
\* the same serialized length, and the mdat payload of the written file
\* begins at the position committed with the placeholder.
C8_TwoPassSizeStable ==
    pc = "written" =>
        LET il   == Interleaved
            offs == ComputeOffsets(MdatStartPos(cutTracks, il), il)
        IN  /\ \A w \in BOOLEAN :
                   SerializedLen(makeMoovMultiTrack(cutTracks, il, <<0, 0>>, w))
                     = SerializedLen(makeMoovMultiTrackWithOffsets(cutTracks, il, offs, w))
            /\ SerializedLen(makeMoovMultiTrack(cutTracks, il, <<0, 0>>, UseCo64(il)))
                 = SerializedLen(out.moov)
            /\ BodyPos(1) = MdatStartPos(cutTracks, il)

\* A written two-track file with 64-bit offsets.
C8_Witness ==
    /\ pc = "written"
    /\ Len(cutTracks) = 2
    /\ Len(out.body) >= 3
    /\ HasChild(StblOf(0), "co64")

\* The exact time order of two interleaved entries, by cross-multiplication
\* (decode_time / timescale, timescale 0 read as 1000).
SecondsOf(e) ==
    [num |-> e.Sample.Time,
     den |-> IF cutTracks[e.TrackIndex + 1].Timescale = 0 THEN 1000
             ELSE cutTracks[e.TrackIndex + 1].Timescale]

\* C9: the interleaved order holds every (track, sample) pair exactly once,
\* sorted by decode_time / timescale, ties by track index and then by sample
\* order; the mdat body is written and the chunk offsets are assigned in
\* that order.
C9_InterleavedOrder ==
    pc = "written" =>
        LET il == Interleaved
        IN  /\ Len(il) = Sum([i \in 1..Len(cutTracks) |-> Len(cutTracks[i].Samples)])
            /\ \A ti \in 1..Len(cutTracks) : \A si \in 1..Len(cutTracks[ti].Samples) :
                   \E k \in 1..Len(il) :
                       /\ il[k].TrackIndex = ti - 1
                       /\ il[k].SampleIndex = si - 1
                       /\ il[k].Sample = cutTracks[ti].Samples[si]
            /\ \A k \in 1..Len(il) : \A l \in (k + 1)..Len(il) :
                   LET a == SecondsOf(il[k])
                       b == SecondsOf(il[l])
                   IN  /\ a.num * b.den <= b.num * a.den
                       /\ (a.num * b.den = b.num * a.den =>
                              /\ il[k].TrackIndex <= il[l].TrackIndex
                              /\ (il[k].TrackIndex = il[l].TrackIndex =>
                                     il[k].SampleIndex < il[l].SampleIndex))
            /\ Len(out.body) = Len(il)
            /\ \A k \in 1..Len(il) :
                   /\ out.body[k].src = il[k].Sample.Offset
                   /\ RecordedOffsets(il[k].TrackIndex)[il[k].SampleIndex + 1]
                        = IF k = 1 THEN W(24 + SerializedLen(out.moov) + 8)
                          ELSE WAdd(RecordedOffsets(il[k - 1].TrackIndex)
                                        [il[k - 1].SampleIndex + 1],
                                    il[k - 1].Sample.Size)

\* Two tracks of different timescales: a tie at time 0 won by track 0, and
\* the second sample of track 1 written before the second sample of track 0.
C9_Witness ==
    /\ pc = "written"
    /\ Len(cutTracks) = 2
    /\ LET il == Interleaved
       IN  /\ Len(il) = 4
           /\ il[1].TrackIndex = 0 /\ il[2].TrackIndex = 1
           /\ il[3].TrackIndex = 1 /\ il[4].TrackIndex = 0
           /\ cutTracks[1].Timescale # cutTracks[2].Timescale

\* Total size of the samples handed to the remuxer.
PayloadSize ==
    WSum([i \in 1..Len(cutTracks) |->
             WSum([j \in 1..Len(cutTracks[i].Samples) |-> cutTracks[i].Samples[j].Size])])

C11_MdatSizeField ==
    pc = "written" =>
        /\ out.mdat[1].w = 4
        /\ out.mdat[1].v = WAdd(PayloadSize, W(8))

\* C12: after WriteMultiTrackFile has returned an error, no file is left at
\* the output path.
C12_FailureRemovesOutput ==
    (pc = "failed" /\ err # "nil") => ~exists

\* C13: given no tracks, or only tracks without samples, WriteMultiTrackFile
\* returns an error and leaves no output file.
C13_EmptyInputFails ==
    (/\ pc \in {"written", "failed"}
     /\ \A i \in 1..Len(cutTracks) : Len(cutTracks[i].Samples) = 0)
        => (err # "nil" /\ ~exists)

(***************************************************************************)
(* FastProbe and the Demuxer.                                              *)
(*                                                                         *)
(* A file is read as the atom tree it holds; the payload of a table is the  *)
(* sequence of its fields, complete for its entry count.                   *)
(***************************************************************************)
TrackTypeHint == "hint"

TrackTypeMeta == "meta"

ContainerAtoms == {"moov", "trak", "mdia", "minf", "dinf", "stbl", "mvex"}

\* The bytes of a box in the file: size, type, own fields, then the boxes
\* inside it.
RECURSIVE RawBox(_), RawBoxes(_, _)
RawBox(atom) ==
    <<WriteUint32(SerializedLen(atom)), [w |-> 4, v |-> atom.Type]>>
        \o atom.Data \o RawBoxes(atom.Children, Len(atom.Children))

RawBoxes(atoms, k) ==
    IF k = 0 THEN <<>> ELSE RawBoxes(atoms, k - 1) \o RawBox(atoms[k])

\* parseAtoms: the children of an atom are parsed only for known containers;
\* the boxes inside any other atom stay raw bytes of its payload.
RECURSIVE parseAtoms(_)
parseAtoms(atom) ==
    IF atom.Type \in ContainerAtoms
    THEN [Type     |-> atom.Type,
          Data     |-> atom.Data,
          Children |-> [i \in 1..Len(atom.Children) |-> parseAtoms(atom.Children[i])]]
    ELSE [Type     |-> atom.Type,
          Data     |-> atom.Data \o RawBoxes(atom.Children, Len(atom.Children)),
          Children |-> <<>>]

IsNil(atom) == atom.Type = "none"

\* findChildPath: the first child of the given type, or nil
findChildPath(parent, typ) ==
    IF HasChild(parent, typ) THEN FindChild(parent, typ) ELSE NoAtom

\* A big-endian uint32 field as a number.
Num(v) == v[1] * Base + v[2]

\* The entry count that follows the version and flags of a table.
EntryCount(atom) == Num(atom.Data[2].v)

ParseStts(atom) ==
    [i \in 1..EntryCount(atom) |->
        [Count    |-> Num(atom.Data[2 * i + 1].v),
         Duration |-> Num(atom.Data[2 * i + 2].v)]]

ParseStss(atom) == [i \in 1..EntryCount(atom) |-> Num(atom.Data[i + 2].v)]

ParseStco(atom) == [i \in 1..EntryCount(atom) |-> atom.Data[i + 2].v]

\* sampleSize, then entryCount; the entries are read only when sampleSize = 0
ParseStsz(atom) ==
    LET sampleSize == atom.Data[2].v
        entryCount == Num(atom.Data[3].v)
    IN  [fixedSize |-> sampleSize,
         entries   |-> IF sampleSize # <<0, 0>> THEN <<>>
                       ELSE [i \in 1..entryCount |-> atom.Data[i + 3].v]]

ParseStsc(atom) ==
    [i \in 1..EntryCount(atom) |->
        [FirstChunk      |-> Num(atom.Data[3 * i].v),
         SamplesPerChunk |-> Num(atom.Data[3 * i + 1].v),
         SampleDescID    |-> Num(atom.Data[3 * i + 2].v)]]

\* int32(uoff) of a uint32 field
Int32(v) ==
    IF v[1] < 2 ^ 15 THEN Num(v)
    ELSE -((Base - 1 - v[1]) * Base + (Base - v[2]))

ParseCtts(atom) ==
    [i \in 1..EntryCount(atom) |->
        [Count  |-> Num(atom.Data[2 * i + 1].v),
         Offset |-> Int32(atom.Data[2 * i + 2].v)]]

\* Version 0 entries: SegmentDuration(4), MediaTime(4), rate 16.16
ParseElst(atom) ==
    [i \in 1..EntryCount(atom) |->
        [SegmentDuration |-> Num(atom.Data[4 * i - 1].v),
         MediaTime       |-> Int32(atom.Data[4 * i].v),
         MediaRateInt    |-> Num(atom.Data[4 * i + 1].v),
         MediaRateFrac   |-> Num(atom.Data[4 * i + 2].v)]]

\* After version/flags, creation and modification: timescale and duration
ParseMdhd(atom) ==
    [timescale |-> Num(atom.Data[4].v), duration |-> Num(atom.Data[5].v)]

\* Width and height follow the 72 bytes after version/flags (version 0)
ParseTkhd(atom) ==
    [width |-> Num(atom.Data[14].v), height |-> Num(atom.Data[15].v)]

TableTypes == {"stss", "stts", "stco", "stsz", "stsc"}

\* The table atoms met by LocateTables' find, in the order it visits them;
\* it descends into every other atom that has children.
RECURSIVE TablesIn(_, _)
TablesIn(atoms, k) ==
    IF k = 0 THEN <<>>
    ELSE TablesIn(atoms, k - 1)
         \o (IF atoms[k].Type \in TableTypes THEN <<atoms[k]>>
             ELSE TablesIn(atoms[k].Children, Len(atoms[k].Children)))

\* LocateTables: the last atom of the type that find meets, or nil
LocateTable(trak, typ) ==
    LET met   == TablesIn(trak.Children, Len(trak.Children))
        found == SelectSeq(met, LAMBDA a : a.Type = typ)
    IN  IF Len(found) = 0 THEN NoAtom ELSE found[Len(found)]

\* The per-sample durations of the stts runs.
RECURSIVE ExpandStts(_, _)
ExpandStts(stts, k) ==
    IF k = 0 THEN <<>>
    ELSE ExpandStts(stts, k - 1) \o [i \in 1..stts[k].Count |-> stts[k].Duration]

\* samplesPerChunk of a chunk: the entries are scanned in table order up to
\* the first one whose FirstChunk is beyond the chunk.
RECURSIVE SamplesPerChunk(_, _, _, _)
SamplesPerChunk(stsc, j, chunkIndex, acc) ==
    IF j > Len(stsc) THEN acc
    ELSE IF chunkIndex >= stsc[j].FirstChunk
         THEN SamplesPerChunk(stsc, j + 1, chunkIndex, stsc[j].SamplesPerChunk)
         ELSE acc

\* sampleIdx when the loop reaches chunk c (1-based), without the cap at
\* len(samples).
RECURSIVE ChunkStart(_, _)
ChunkStart(stsc, c) ==
    IF c = 1 THEN 0
    ELSE ChunkStart(stsc, c - 1) + SamplesPerChunk(stsc, 1, c - 1, 0)

\* The chunk whose inner loop assigns sample i (1-based), 0 when none does.
ChunkOf(i, stco, stsc) ==
    LET cs == {c \in 1..Len(stco) :
                  /\ ChunkStart(stsc, c) < i
                  /\ i <= ChunkStart(stsc, c) + SamplesPerChunk(stsc, 1, c, 0)}
    IN  IF cs = {} THEN 0 ELSE CHOOSE c \in cs : TRUE

\* The size of sample i: the fixed size, or the stsz entry.
SizeOf(i, sz) == IF sz.fixedSize # <<0, 0>> THEN sz.fixedSize ELSE sz.entries[i]

\* Sample i of numSamples, with id the value of its ID field, c its chunk (0
\* for none) and first the number of samples before that chunk; a sample that
\* the stts loop or the chunk loop never reaches keeps the zero values of the
\* fields they assign.
SampleAt(i, id, c, first, durs, stco, sz, stss) ==
    [ID         |-> id,
     IsKeyframe |-> /\ c # 0
                    /\ (Len(stss) = 0 \/ \E j \in 1..Len(stss) : stss[j] = id),
     Offset     |-> IF c = 0 THEN <<0, 0>>
                    ELSE WAdd(stco[c],
                              WSum([j \in 1..(i - 1 - first) |-> SizeOf(first + j, sz)])),
     Size       |-> SizeOf(i, sz),
     Time       |-> IF id = 0 THEN 0 ELSE SumTo(durs, i - 1),
     Duration   |-> IF id = 0 THEN 0 ELSE durs[i]]

\* The samples of the parsed tables; durs are the durations of the stts runs.
FlattenSamples(numSamples, durs, stco, sz, stsc, stss) ==
    [i \in 1..numSamples |->
        SampleAt(i, IF i <= Len(durs) THEN i ELSE 0,
                 ChunkOf(i, stco, stsc),
                 IF ChunkOf(i, stco, stsc) = 0 THEN 0
                 ELSE ChunkStart(stsc, ChunkOf(i, stco, stsc)),
                 durs, stco, sz, stss)]

\* numSamples: the stts total for a fixed sample size, else len(stsz)
NumSamples(durs, sz) ==
    IF sz.fixedSize # <<0, 0>> THEN Len(durs) ELSE Len(sz.entries)

\* The tables parsed from their atoms; a nil stss atom gives no entries.
MapTables(stssAtom, sttsAtom, stcoAtom, stszAtom, stscAtom) ==
    IF IsNil(sttsAtom) \/ IsNil(stcoAtom) \/ IsNil(stszAtom) \/ IsNil(stscAtom)
    THEN [err |-> "missing critical atom tables", samples |-> <<>>]
    ELSE [err |-> "nil",
          samples |->
              FlattenSamples(
                  NumSamples(ExpandStts(ParseStts(sttsAtom), Len(ParseStts(sttsAtom))),
                             ParseStsz(stszAtom)),
                  ExpandStts(ParseStts(sttsAtom), Len(ParseStts(sttsAtom))),
                  ParseStco(stcoAtom), ParseStsz(stszAtom), ParseStsc(stscAtom),
                  IF IsNil(stssAtom) THEN <<>> ELSE ParseStss(stssAtom))]

\* MapSamples: [err, samples]
MapSamples(trak) ==
    MapTables(LocateTable(trak, "stss"), LocateTable(trak, "stts"),
              LocateTable(trak, "stco"), LocateTable(trak, "stsz"),
              LocateTable(trak, "stsc"))

\* The handler type at bytes 8..12 of the hdlr payload.
HandlerType(hdlr) ==
    IF DataLen(hdlr) < 12 THEN ""
    ELSE IF hdlr[2].v = "vide" THEN TrackTypeVideo
    ELSE IF hdlr[2].v = "soun" THEN TrackTypeAudio
    ELSE IF hdlr[2].v = "hint" THEN TrackTypeHint
    ELSE TrackTypeMeta

\* The per-sample offsets of the ctts runs.
RECURSIVE ExpandCtts(_, _)
ExpandCtts(ctts, k) ==
    IF k = 0 THEN <<>>
    ELSE ExpandCtts(ctts, k - 1) \o [i \in 1..ctts[k].Count |-> ctts[k].Offset]

\* MediaTimeOffset: the media time of the first entry at or after k that is
\* not an empty edit, 0 when there is none.
RECURSIVE FirstMediaTime(_, _)
FirstMediaTime(entries, k) ==
    IF k > Len(entries) THEN 0
    ELSE IF entries[k].MediaTime >= 0 THEN entries[k].MediaTime
    ELSE FirstMediaTime(entries, k + 1)

\* The Track of a trak whose required atoms were found.
MakeTrack(type, mdhd, samples, stsdAtom, hdlrAtom, headerAtom, tkhd, cttsAtom, elstAtom) ==
    [ID          |-> 0,
     Type        |-> type,
     Timescale   |-> mdhd.timescale,
     Duration    |-> mdhd.duration,
     Samples     |-> samples,
     Stsd        |-> IF IsNil(stsdAtom) THEN 0 ELSE DataLen(stsdAtom.Data),
     Hdlr        |-> hdlrAtom.Data,
     MediaHeader |-> IF IsNil(headerAtom) THEN -1 ELSE DataLen(headerAtom.Data),
     Width       |-> tkhd.width,
     Height      |-> tkhd.height,
     CTSOffsets  |-> IF IsNil(cttsAtom) THEN <<>>
                     ELSE ExpandCtts(ParseCtts(cttsAtom), Len(ParseCtts(cttsAtom))),
     EditList    |-> IF IsNil(elstAtom) THEN <<>> ELSE ParseElst(elstAtom),
     MediaTimeOffset |-> IF IsNil(elstAtom) THEN 0
                         ELSE FirstMediaTime(ParseElst(elstAtom), 1)]

\* The media header atom of a track type: vmhd, smhd or none.
MediaHeaderAtom(type, minfAtom) ==
    IF type = TrackTypeVideo THEN findChildPath(minfAtom, "vmhd")
    ELSE IF type = TrackTypeAudio THEN findChildPath(minfAtom, "smhd")
    ELSE NoAtom

\* parseTrack after the lookups of its atoms; a child of a nil atom is nil.
ParseTrackAtoms(tkhdAtom, elstAtom, mdiaAtom, mdhdAtom, hdlrAtom, minfAtom, stblAtom, mapped) ==
    IF IsNil(tkhdAtom) THEN [err |-> "missing tkhd", track |-> NoAtom]
    ELSE IF IsNil(mdiaAtom) THEN [err |-> "missing mdia", track |-> NoAtom]
    ELSE IF IsNil(mdhdAtom) THEN [err |-> "missing mdhd", track |-> NoAtom]
    ELSE IF IsNil(hdlrAtom) THEN [err |-> "missing hdlr", track |-> NoAtom]
    ELSE IF IsNil(minfAtom) THEN [err |-> "missing minf", track |-> NoAtom]
    ELSE IF mapped.err # "nil" THEN [err |-> "failed to map samples", track |-> NoAtom]
    ELSE [err |-> "nil",
          track |-> MakeTrack(HandlerType(hdlrAtom.Data), ParseMdhd(mdhdAtom),
                              mapped.samples, findChildPath(stblAtom, "stsd"),
                              hdlrAtom,
                              MediaHeaderAtom(HandlerType(hdlrAtom.Data), minfAtom),
                              ParseTkhd(tkhdAtom), findChildPath(stblAtom, "ctts"),
                              elstAtom)]

\* The atoms parseTrack looks up below mdia.
ParseTrackMedia(trak, mdiaAtom, minfAtom) ==
    ParseTrackAtoms(findChildPath(trak, "tkhd"),
                    findChildPath(findChildPath(trak, "edts"), "elst"),
                    mdiaAtom, findChildPath(mdiaAtom, "mdhd"),
                    findChildPath(mdiaAtom, "hdlr"), minfAtom,
                    findChildPath(minfAtom, "stbl"), MapSamples(trak))

\* parseTrack: [err, track]
parseTrack(trak) ==
    ParseTrackMedia(trak, findChildPath(trak, "mdia"),
                    findChildPath(findChildPath(trak, "mdia"), "minf"))

\* The track of a parsed trak, nothing for a trak that failed.
Appended(parsed) == IF parsed.err = "nil" THEN <<parsed.track>> ELSE <<>>

\* The tracks of the trak children among the first k children of moov.
RECURSIVE TracksOf(_, _)
TracksOf(children, k) ==
    IF k = 0 THEN <<>>
    ELSE TracksOf(children, k - 1)
         \o (IF children[k].Type = "trak" THEN Appended(parseTrack(children[k]))
             ELSE <<>>)

\* The result for the tracks that parsed.
Extracted(ts) ==
    IF Len(ts) = 0 THEN [err |-> "no valid tracks found in moov", tracks |-> <<>>]
    ELSE [err |-> "nil", tracks |-> ts]

\* Variant of ExtractTracksOf that gives up at the first trak that fails.
ExtractTracksOfStrict(m) ==
    IF \E k \in 1..Len(m.Children) :
           m.Children[k].Type = "trak" /\ parseTrack(m.Children[k]).err # "nil"
    THEN [err |-> "no valid tracks found in moov", tracks |-> <<>>]
    ELSE Extracted(TracksOf(m.Children, Len(m.Children)))

\* ExtractTracks: [err, tracks]
ExtractTracksOf(m) == Extracted(TracksOf(m.Children, Len(m.Children)))

\* The moov atom of the input ("probed") or of the written file ("reprobed")
\* is handed to the demuxer.
ExtractTracks ==
    /\ pc \in {"probed", "reprobed"}
    /\ tracks' = ExtractTracksOf(moov).tracks
    /\ err' = IF Len(tracks') = 0 THEN "no valid tracks found in moov" ELSE "nil"
    /\ pc' = IF err' = "nil"
             THEN (IF pc = "probed" THEN "loaded" ELSE "reloaded")
             ELSE (IF pc = "probed" THEN "rejected" ELSE "rerejected")
    /\ UNCHANGED <<startTime, endTime, fileSize, cutTracks, reports, out, fault,
                   exists, moov, file, probeAtoms, pipe>>

\* FastProbe of the written file and the search for its moov atom.
FastProbe ==
    /\ pc = "written"
    /\ moov' = parseAtoms(out.moov)
    /\ pc' = "reprobed"
    /\ UNCHANGED <<tracks, startTime, endTime, fileSize, cutTracks, reports, out,
                   fault, err, exists, file, probeAtoms, pipe>>

(***************************************************************************)
(* Cut, write, then probe and demux the written file.                      *)
(***************************************************************************)
\* Video tracks of timescale 1 with every keyframe pattern.
RoundTrackSet ==
    UNION {{UniformTrack(TrackTypeVideo, 1, n, d, kf, [i \in 1..n |-> W(100 * i)]) :
               d \in 0..MaxDur, kf \in [1..n -> BOOLEAN]} :
           n \in 0..MaxRemuxSamples}

\* Audio tracks of timescale 2, every sample a sync sample.
RoundAudioSet ==
    {UniformTrack(TrackTypeAudio, 2, n, d, [i \in 1..n |-> TRUE],
                  [i \in 1..n |-> W(100 * i)]) :
        n \in 0..MaxRemuxSamples, d \in 0..MaxDur}

InitRound ==
    /\ pc = "loaded"
    /\ tracks \in TrackLists(RoundTrackSet, RoundAudioSet)
    /\ startTime = 0
    /\ endTime = MaxHalfSec
    /\ fileSize = InputEnd(tracks)
    /\ cutTracks = <<>>
    /\ reports = <<>>
    /\ out = NoOut
    /\ fault = NoFault
    /\ err = "nil"
    /\ exists = FALSE
    /\ pipe = NoPipe
    /\ file = NoFile
    /\ probeAtoms = <<>>
    /\ moov = NoAtom

NextRound == CutWithReport \/ Cut \/ WriteMultiTrackFile \/ FastProbe \/ ExtractTracks

SpecRound == InitRound /\ [][NextRound]_vars

\* Position in the output of the bytes of sample si of track ti (0-based).
WrittenAt(ti, si) ==
    LET il == Interleaved
    IN  BodyPos(CHOOSE k \in 1..Len(il) :
                    il[k].TrackIndex = ti /\ il[k].SampleIndex = si)

\* C14: demuxing the written file yields the written tracks in order, each
\* with the same sample count and the same per-sample sizes, durations and
\* keyframe flags, every sample at the offset where its bytes were written.
C14_SelfRoundTrip ==
    (pc \in {"reloaded", "rerejected"} /\ Len(cutTracks) > 0) =>
        /\ pc = "reloaded"
        /\ Len(tracks) = Len(cutTracks)
        /\ \A k \in 1..Len(cutTracks) :
               /\ tracks[k].Type = cutTracks[k].Type
               /\ Len(tracks[k].Samples) = Len(cutTracks[k].Samples)
               /\ \A i \in 1..Len(cutTracks[k].Samples) :
                      LET a == tracks[k].Samples[i]
                          b == cutTracks[k].Samples[i]
                      IN  /\ a.Size = b.Size
                          /\ a.Duration = b.Duration
                          /\ a.IsKeyframe = b.IsKeyframe
                          /\ a.Offset = WrittenAt(k - 1, i - 1)

(***************************************************************************)
(* Input files of the demuxer: a moov of trak atoms whose sample tables are *)
(* well formed one by one but need not agree with each other.              *)
(***************************************************************************)
\* A field sequence of one uint32 per number.
Uint32s(ns) == [i \in 1..Len(ns) |-> WriteUint32(ns[i])]

\* Tables in the layout their parsers read: version/flags, entry count,
\* entries.
SttsAtom(runs) ==
    Leaf("stts", <<WriteUint32(0), WriteUint32(Len(runs))>>
                 \o Flatten([i \in 1..Len(runs) |-> Uint32s(runs[i])]))

StszAtom(sampleSize, sizes) ==
    Leaf("stsz", <<WriteUint32(0), WriteUint32(sampleSize), WriteUint32(Len(sizes))>>
                 \o Uint32s(sizes))

StcoAtom(offs) == Leaf("stco", <<WriteUint32(0), WriteUint32(Len(offs))>> \o Uint32s(offs))

\* The 64-bit variant of stco: each offset as its high and its low 32 bits.
Co64Atom(offs) ==
    Leaf("co64", <<WriteUint32(0), WriteUint32(Len(offs))>>
                 \o Flatten([i \in 1..Len(offs) |-> <<WriteUint32(0), WriteUint32(offs[i])>>]))

StscAtom(entries) ==
    Leaf("stsc", <<WriteUint32(0), WriteUint32(Len(entries))>>
                 \o Flatten([i \in 1..Len(entries) |->
                       Uint32s(<<entries[i][1], entries[i][2], 1>>)]))

StssAtom(ids) == Leaf("stss", <<WriteUint32(0), WriteUint32(Len(ids))>> \o Uint32s(ids))

\* elst, version 0: <<segment_duration, media_time>> entries at rate 1.0.
ElstAtom(entries) ==
    Leaf("elst", <<WriteUint32(0), WriteUint32(Len(entries))>>
                 \o Flatten([i \in 1..Len(entries) |->
                       <<WriteUint32(entries[i][1]), WriteInt32(entries[i][2]),
                         WriteUint16(1), WriteUint16(0)>>]))

\* The children of an atom without those of type drop.
Without(atoms, drop) == SelectSeq(atoms, LAMBDA a : a.Type # drop)

\* The trak atom of the description p at position k of moov; k is recorded
\* as the width in tkhd, the atom of type p.drop is left out, and the chunk
\* offsets are in a box of type p.chunkBox.
TrakAtom(p, k) ==
    LET stbl == Node("stbl",
                    Without(<<Leaf("stsd", <<WriteBytes(16)>>),
                              SttsAtom(p.stts), StszAtom(p.sampleSize, p.sizes),
                              IF p.chunkBox = "co64" THEN Co64Atom(p.stco)
                              ELSE StcoAtom(p.stco),
                              StscAtom(p.stsc)>>
                            \o (IF p.hasStss THEN <<StssAtom(p.stss)>> ELSE <<>>),
                            p.drop))
        minf == Node("minf",
                    Without(<<Leaf(IF p.handler = "soun" THEN "smhd" ELSE "vmhd",
                                   <<WriteBytes(8)>>),
                              Node("dinf", <<Leaf("dref", <<WriteBytes(20)>>)>>),
                              stbl>>, p.drop))
        mdhd == Leaf("mdhd",
                    <<WriteUint32(0), WriteUint32(0), WriteUint32(0),
                      WriteUint32(p.timescale), WriteUint32(0),
                      WriteUint16(21956), WriteUint16(0)>>)
        mdia == Node("mdia",
                    Without(<<mdhd, Leaf("hdlr", HdlrPayload(p.handler)), minf>>,
                            p.drop))
        tkhd == Leaf("tkhd",
                    <<WriteUint32(3), WriteUint32(0), WriteUint32(0),
                      WriteUint32(k), WriteUint32(0), WriteUint32(0),
                      WriteUint32(0), WriteUint32(0),
                      WriteUint16(0), WriteUint16(0), WriteUint16(0),
                      WriteUint16(0), WriteBytes(IdentityMatrixLen),
                      WriteUint32(k), WriteUint32(0)>>)
        edts == Node("edts", <<ElstAtom(p.elst)>>)
    IN  Node("trak", Without(<<tkhd, edts, mdia>>, p.drop))

\* A video trak of timescale 2 whose tables describe n samples of duration
\* 1 and size 100, one chunk per sample, the first sample the only keyframe,
\* with an edit list of one entry for the whole track.
PlainTrak(n) ==
    [handler |-> "vide", timescale |-> 2, drop |-> "none", chunkBox |-> "stco",
     stts |-> IF n = 0 THEN <<>> ELSE <<(<<n, 1>>)>>,
     sampleSize |-> 0, sizes |-> [i \in 1..n |-> 100],
     stco |-> [i \in 1..n |-> 4096 * i],
     stsc |-> <<(<<1, 1>>)>>,
     hasStss |-> TRUE, stss |-> IF n = 0 THEN <<>> ELSE <<1>>,
     elst |-> <<(<<n, 0>>)>>]

\* stts: nothing, one run, or a run of one sample followed by a second run.
SttsSet ==
    {<<>>}
        \cup {<<(<<c, d>>)>> : c \in 1..MaxSamples, d \in 0..MaxDur}
        \cup {<<(<<1, 1>>), (<<c, 2>>)>> : c \in 1..(MaxSamples - 1)}

\* stsz: explicit sizes 100, 200, ..., or one size for all samples.
StszSet ==
    {[sampleSize |-> 0, sizes |-> [i \in 1..n |-> 100 * i]] : n \in 0..MaxSamples}
        \cup {[sampleSize |-> 100, sizes |-> <<>>]}

\* stco: chunks at 4096, 8192, ...
StcoSet == {[i \in 1..c |-> 4096 * i] : c \in 0..MaxSamples}

\* stsc: <<first_chunk, samples_per_chunk>> entries.
StscSet ==
    {<<(<<1, 1>>)>>, <<(<<1, 2>>)>>, <<(<<1, 1>>), (<<2, 2>>)>>, <<(<<2, 1>>)>>}

\* stss: absent, present without entries, or listing sample ids.
StssSet ==
    {[hasStss |-> FALSE, stss |-> <<>>], [hasStss |-> TRUE, stss |-> <<>>],
     [hasStss |-> TRUE, stss |-> <<1>>], [hasStss |-> TRUE, stss |-> <<2>>],
     [hasStss |-> TRUE, stss |-> <<1, MaxSamples>>]}

\* Traks with every combination of tables.
TableTrakSet ==
    {[PlainTrak(0) EXCEPT !.stts = a, !.sampleSize = z.sampleSize, !.sizes = z.sizes,
                          !.stco = o, !.stsc = c, !.hasStss = k.hasStss,
                          !.stss = k.stss] :
        a \in SttsSet, z \in StszSet, o \in StcoSet, c \in StscSet, k \in StssSet}

\* Traks with plain tables, any handler and timescale, and one atom left out.
HeaderTrakSet ==
    {[PlainTrak(2) EXCEPT !.handler = h, !.timescale = ts, !.drop = d] :
        h \in {"vide", "soun", "hint", "text"}, ts \in {0, 1, 2},
        d \in {"none", "tkhd", "edts", "mdia", "mdhd", "hdlr", "minf", "stbl",
               "stts", "stco", "stsz", "stsc", "stss"}}

\* Traks whose chunk offsets are in a co64 box.
Co64TrakSet == {[PlainTrak(n) EXCEPT !.chunkBox = "co64"] : n \in 1..MaxSamples}

\* Later traks: a plain one and one without its chunk offsets.
OtherTrakSet == {PlainTrak(2), [PlainTrak(2) EXCEPT !.drop = "stco"]}

\* moov: mvhd, then the traks of the descriptions ps.
InputMoov(ps) ==
    Node("moov",
         <<Leaf("mvhd", <<WriteBytes(100)>>)>>
         \o [k \in 1..Len(ps) |-> TrakAtom(ps[k], k)])

\* Input files: one trak of TableTrakSet, or 1 .. MaxTracks traks, the first
\* of HeaderTrakSet or Co64TrakSet and the later ones of OtherTrakSet.
InputTraks ==
    {<<f>> : f \in TableTrakSet}
        \cup UNION {{[k \in 1..n |-> IF k = 1 THEN f ELSE g[k]] :
                        f \in HeaderTrakSet \cup Co64TrakSet,
                        g \in [1..n -> OtherTrakSet]} :
                    n \in 1..MaxTracks}

InitDemux ==
    /\ pc = "probed"
    /\ \E ps \in InputTraks : moov = parseAtoms(InputMoov(ps))
    /\ tracks = <<>>
    /\ startTime = 0
    /\ endTime = 0
    /\ fileSize = <<0, 0>>
    /\ cutTracks = <<>>
    /\ reports = <<>>
    /\ out = NoOut
    /\ fault = NoFault
    /\ err = "nil"
    /\ exists = FALSE
    /\ pipe = NoPipe
    /\ file = NoFile
    /\ probeAtoms = <<>>

NextDemux == ExtractTracks

SpecDemux == InitDemux /\ [][NextDemux]_vars

(***************************************************************************)
(* Properties of the demuxer.                                              *)
(***************************************************************************)
\* The trak atom behind a returned track: the input records the position of
\* a trak among the children of moov in its tkhd width.
SrcTrak(t) == moov.Children[t.Width + 1]

\* The table of the given type in the stbl of a trak.
StblTable(trak, typ) ==
    FindChild(FindChild(FindChild(FindChild(trak, "mdia"), "minf"), "stbl"), typ)

HasStblTable(trak, typ) ==
    /\ HasChild(trak, "mdia")
    /\ HasChild(FindChild(trak, "mdia"), "minf")
    /\ HasChild(FindChild(FindChild(trak, "mdia"), "minf"), "stbl")
    /\ HasChild(FindChild(FindChild(FindChild(trak, "mdia"), "minf"), "stbl"), typ)

\* A trak with its headers and the four required sample tables.
Parses(trak) ==
    /\ HasChild(trak, "tkhd")
    /\ HasChild(trak, "mdia")
    /\ HasChild(FindChild(trak, "mdia"), "mdhd")
    /\ HasChild(FindChild(trak, "mdia"), "hdlr")
    /\ \A typ \in {"stts", "stco", "stsz", "stsc"} : HasStblTable(trak, typ)

\* Positions among the children of moov of the traks that parse.
GoodTraks ==
    {k \in 1..Len(moov.Children) :
        moov.Children[k].Type = "trak" /\ Parses(moov.Children[k])}

SttsTotal(trak) ==
    LET stts == ParseStts(StblTable(trak, "stts"))
    IN  Sum([i \in 1..Len(stts) |-> stts[i].Count])

\* Samples per chunk by the rule of the entry with the largest first_chunk
\* at or below the chunk, 0 when there is none.
RefSamplesPerChunk(trak, c) ==
    LET stsc == ParseStsc(StblTable(trak, "stsc"))
        at   == {j \in 1..Len(stsc) : stsc[j].FirstChunk <= c}
    IN  IF at = {} THEN 0
        ELSE stsc[CHOOSE j \in at :
                      \A l \in at : stsc[l].FirstChunk <= stsc[j].FirstChunk].SamplesPerChunk

\* Number of samples in the chunks before chunk c.
RefChunkStart(trak, c) ==
    Sum([k \in 1..(c - 1) |-> RefSamplesPerChunk(trak, k)])

NumChunks(trak) == Len(ParseStco(StblTable(trak, "stco")))

\* C16: a returned track has as many samples as the stts entries count, as
\* stsz lists when it carries explicit sizes, and as the chunks hold; a trak
\* whose tables disagree yields no track.
C16_SampleCountConsistency ==
    pc = "loaded" =>
        \A k \in 1..Len(tracks) :
            LET src == SrcTrak(tracks[k])
                sz  == ParseStsz(StblTable(src, "stsz"))
            IN  /\ Len(tracks[k].Samples) = SttsTotal(src)
                /\ sz.fixedSize = <<0, 0>> => Len(tracks[k].Samples) = Len(sz.entries)
                /\ Len(tracks[k].Samples) = RefChunkStart(src, NumChunks(src) + 1)

\* C17: the decode times of a returned track are the running sum of the
\* durations, starting at 0.
C17_TimeRunningSum ==
    pc = "loaded" =>
        \A k \in 1..Len(tracks) :
            LET ss == tracks[k].Samples
            IN  /\ Len(ss) > 0 => ss[1].Time = 0
                /\ \A i \in 1..(Len(ss) - 1) : ss[i + 1].Time = ss[i].Time + ss[i].Duration

\* C18: every sample of a returned track lies in a chunk, by the rule of the
\* stsc entry with the largest first_chunk at or below the chunk, and its
\* offset is the chunk offset plus the sizes of the samples before it in the
\* chunk.
C18_ChunkOffsets ==
    pc = "loaded" =>
        \A k \in 1..Len(tracks) :
            LET src  == SrcTrak(tracks[k])
                ss   == tracks[k].Samples
                stco == ParseStco(StblTable(src, "stco"))
            IN  \A i \in 1..Len(ss) :
                    \E c \in 1..Len(stco) :
                        LET start == RefChunkStart(src, c)
                        IN  /\ start < i
                            /\ i <= start + RefSamplesPerChunk(src, c)
                            /\ ss[i].Offset =
                                   WAdd(stco[c],
                                        WSum([j \in 1..(i - 1 - start) |->
                                                 ss[start + j].Size]))

\* C19: a sample is a keyframe iff its trak has no stss box or its id is
\* listed in stss.
C19_KeyframeFlags ==
    pc = "loaded" =>
        \A k \in 1..Len(tracks) :
            LET src == SrcTrak(tracks[k])
                ss  == tracks[k].Samples
            IN  \A i \in 1..Len(ss) :
                    ss[i].IsKeyframe <=>
                        \/ ~HasStblTable(src, "stss")
                        \/ \E j \in 1..Len(ParseStss(StblTable(src, "stss"))) :
                               ParseStss(StblTable(src, "stss"))[j] = i

\* C20: every returned track has a timescale above 0.
C20_TimescalePositive ==
    pc = "loaded" => \A k \in 1..Len(tracks) : tracks[k].Timescale > 0

\* The offsets of a co64 table: entry count, then 64-bit offsets written as
\* their high and low halves.
Co64Offsets(atom) ==
    [i \in 1..EntryCount(atom) |->
        <<atom.Data[2 * i + 1].v[2] * Base + atom.Data[2 * i + 2].v[1],
          atom.Data[2 * i + 2].v[2]>>]

\* Positions among the children of moov of the traks that have their
\* headers, stts, stsz and stsc, and their chunk offsets in co64, not stco.
Co64Traks ==
    {k \in 1..Len(moov.Children) :
        LET trak == moov.Children[k]
        IN  /\ trak.Type = "trak"
            /\ HasChild(trak, "tkhd")
            /\ HasChild(trak, "mdia")
            /\ HasChild(FindChild(trak, "mdia"), "mdhd")
            /\ HasChild(FindChild(trak, "mdia"), "hdlr")
            /\ \A typ \in {"stts", "stsz", "stsc", "co64"} : HasStblTable(trak, typ)
            /\ ~HasStblTable(trak, "stco")}

\* The samples of a trak flattened with the offsets of its co64 table.
Co64Samples(trak) ==
    MapTables(LocateTable(trak, "stss"), LocateTable(trak, "stts"),
              [StblTable(trak, "co64") EXCEPT
                  !.Type = "stco",
                  !.Data = <<WriteUint32(0), WriteUint32(EntryCount(StblTable(trak, "co64")))>>
                           \o [i \in 1..EntryCount(StblTable(trak, "co64")) |->
                                  [w |-> 4, v |-> Co64Offsets(StblTable(trak, "co64"))[i]]]],
              LocateTable(trak, "stsz"), LocateTable(trak, "stsc")).samples

\* C21: a trak that stores its chunk offsets in co64 instead of stco yields
\* a track, whose samples are flattened as for stco with the 64-bit offsets.
C21_Co64Demuxed ==
    pc \in {"loaded", "rejected"} =>
        \A k \in Co64Traks :
            \E i \in 1..Len(tracks) :
                /\ tracks[i].Width + 1 = k
                /\ tracks[i].Samples = Co64Samples(moov.Children[k])

(***************************************************************************)
(* The whole pipeline of main: probe, ExtractTracks, Cut, remux.           *)
(***************************************************************************)
\* Edit lists of a trak of n samples: the whole track, the track from media
\* time 1, and an empty edit followed by the track from media time 1.
ElstSet(n) == {<<(<<n, 0>>)>>, <<(<<n, 1>>)>>, <<(<<1, -1>>), (<<n, 1>>)>>}

\* Video and audio traks with consistent tables and an edit list.
EditTrakSet ==
    UNION {{[PlainTrak(n) EXCEPT !.handler = h, !.elst = e] :
               h \in {"vide", "soun"}, e \in ElstSet(n)} :
           n \in 1..MaxRemuxSamples}

\* Input files: a trak of EditTrakSet followed by up to MaxTracks - 1 plain
\* traks.
PipeTraks ==
    UNION {{[k \in 1..n |-> IF k = 1 THEN f ELSE PlainTrak(1)] : f \in EditTrakSet} :
           n \in 1..MaxTracks}

InitPipe ==
    /\ pc = "probed"
    /\ \E ps \in PipeTraks : moov = parseAtoms(InputMoov(ps))
    /\ tracks = <<>>
    /\ startTime = 0
    /\ endTime \in 0..MaxHalfSec
    /\ fileSize = W(4096 * (MaxSamples + 1))
    /\ cutTracks = <<>>
    /\ reports = <<>>
    /\ out = NoOut
    /\ fault = NoFault
    /\ err = "nil"
    /\ exists = FALSE
    /\ pipe = NoPipe
    /\ file = NoFile
    /\ probeAtoms = <<>>

NextPipe == ExtractTracks \/ CutWithReport \/ Cut \/ WriteMultiTrackFile

SpecPipe == InitPipe /\ [][NextPipe]_vars

\* The elst box inside the edts box of an input trak: the payload of edts
\* is the size and type of the elst box followed by its fields.
HasInputElst(trak) ==
    /\ HasChild(trak, "edts")
    /\ Len(FindChild(trak, "edts").Data) >= 2
    /\ FindChild(trak, "edts").Data[2].v = "elst"

InputElst(trak) ==
    ParseElst(Leaf("elst", SubSeq(FindChild(trak, "edts").Data, 3,
                                  Len(FindChild(trak, "edts").Data))))

\* C22: the track of a trak with edts/elst carries every elst entry and the
\* media time of the first entry that is not an empty edit, and the written
\* trak of such a track holds an edts/elst with the same entries.
C22_EditListPreserved ==
    /\ pc \in {"loaded", "cut", "written"} =>
           \A i \in 1..Len(tracks) :
               HasInputElst(SrcTrak(tracks[i])) =>
                   /\ tracks[i].EditList = InputElst(SrcTrak(tracks[i]))
                   /\ tracks[i].MediaTimeOffset =
                          FirstMediaTime(InputElst(SrcTrak(tracks[i])), 1)
    /\ pc = "written" =>
           \A k \in 1..Len(cutTracks) :
               (/\ HasInputElst(SrcTrak(cutTracks[k]))
                /\ Len(InputElst(SrcTrak(cutTracks[k]))) > 0) =>
                   /\ HasChild(TrakOf(k - 1), "edts")
                   /\ HasChild(FindChild(TrakOf(k - 1), "edts"), "elst")
                   /\ ParseElst(FindChild(FindChild(TrakOf(k - 1), "edts"), "elst"))
                          = InputElst(SrcTrak(cutTracks[k]))

(***************************************************************************)
(* FastProbe over the bytes of a file.                                     *)
(*                                                                         *)
(* A file is its length (size) and its bytes (data) as a sequence of runs: *)
(* a run [w, bs] is w bytes, the first Len(bs) of them listed in bs and    *)
(* the others 0.  The field boxes records the layout the bytes were made   *)
(* from; the probe reads data and size only.  Every file of the model is   *)
(* shorter than 2^31 bytes and every size field holds less than 2^31, so   *)
(* the int64 arithmetic of the probe is exact in plain integers.           *)
(***************************************************************************)
\* The four bytes of the box types of the model.
FourCC ==
    [ftyp |-> <<102, 116, 121, 112>>, moov |-> <<109, 111, 111, 118>>,
     mvhd |-> <<109, 118, 104, 100>>, mdat |-> <<109, 100, 97, 116>>,
     trak |-> <<116, 114, 97, 107>>,  tkhd |-> <<116, 107, 104, 100>>,
     edts |-> <<101, 100, 116, 115>>, elst |-> <<101, 108, 115, 116>>,
     mdia |-> <<109, 100, 105, 97>>,  minf |-> <<109, 105, 110, 102>>,
     dinf |-> <<100, 105, 110, 102>>, stbl |-> <<115, 116, 98, 108>>,
     mvex |-> <<109, 118, 101, 120>>]

\* ContainerAtoms[typ] for the type bytes read from a header
IsContainer(typ) == \E name \in ContainerAtoms : FourCC[name] = typ

\* binary.BigEndian.Uint32 and PutUint32
BigEndianUint32(bs) == ((bs[1] * 256 + bs[2]) * 256 + bs[3]) * 256 + bs[4]

PutUint32(n) == <<n \div 16777216, (n \div 65536) % 256, (n \div 256) % 256, n % 256>>

\* binary.BigEndian.Uint64; the high word is 0 in every file of the model
BigEndianUint64(bs) == BigEndianUint32(SubSeq(bs, 5, 8))

\* The byte at position off of the runs from the k-th on.
RECURSIVE ByteIn(_, _, _)
ByteIn(data, k, off) ==
    IF k > Len(data) THEN 0
    ELSE IF off < data[k].w
         THEN (IF off < Len(data[k].bs) THEN data[k].bs[off + 1] ELSE 0)
         ELSE ByteIn(data, k + 1, off - data[k].w)

\* The number of bytes file.Read delivers at position pos for a buffer of n.
ReadCount(f, pos, n) ==
    IF pos >= f.size THEN 0 ELSE IF f.size - pos < n THEN f.size - pos ELSE n

\* file.Read into a fresh buffer of n bytes at position pos: the bytes read,
\* zeros where the file ends first, and io.EOF when nothing is left.
Read(f, pos, n) ==
    [n   |-> ReadCount(f, pos, n),
     err |-> IF ReadCount(f, pos, n) = 0 THEN "EOF" ELSE "nil",
     buf |-> [i \in 1..n |-> IF i <= ReadCount(f, pos, n)
                             THEN ByteIn(f.data, 1, pos + i - 1) ELSE 0]]

\* The atoms of a range after its first atom: nil on an error in the
\* children or in the rest of the range.
AppendAtom(offset, size, typ, children, rest) ==
    IF children.err # "nil" THEN [err |-> children.err, atoms |-> <<>>]
    ELSE IF rest.err # "nil" THEN [err |-> rest.err, atoms |-> <<>>]
    ELSE [err   |-> "nil",
          atoms |-> <<[Offset |-> offset, Size |-> size, Type |-> typ,
                       Children |-> children.atoms]>> \o rest.atoms]

\* parseAtoms(file, start, end): [err, atoms].  ParseBox is the loop body
\* once the size is read, ParseHeader the body once the header is read.
RECURSIVE parseAtomsIn(_, _, _), ParseBox(_, _, _, _, _), ParseHeader(_, _, _, _)
parseAtomsIn(f, offset, end) ==
    IF offset >= end THEN [err |-> "nil", atoms |-> <<>>]
    ELSE ParseHeader(f, offset, end, Read(f, offset, 8))

ParseHeader(f, offset, end, header) ==
    IF header.err = "EOF" THEN [err |-> "nil", atoms |-> <<>>]
    ELSE IF BigEndianUint32(SubSeq(header.buf, 1, 4)) = 1
    THEN IF Read(f, offset + header.n, 8).err = "EOF"
         THEN [err |-> "EOF", atoms |-> <<>>]
         ELSE ParseBox(f, offset, end, SubSeq(header.buf, 5, 8),
                       BigEndianUint64(Read(f, offset + header.n, 8).buf))
    ELSE ParseBox(f, offset, end, SubSeq(header.buf, 5, 8),
                  BigEndianUint32(SubSeq(header.buf, 1, 4)))

ParseBox(f, offset, end, typ, read) ==
    IF read = 0
    THEN ParseBox(f, offset, end, typ, end - offset)
    ELSE AppendAtom(offset, read, typ,
                    IF IsContainer(typ)
                    THEN parseAtomsIn(f, offset + (IF read = 1 THEN 16 ELSE 8),
                                      offset + read)
                    ELSE [err |-> "nil", atoms |-> <<>>],
                    parseAtomsIn(f, offset + read, end))

\* FastProbe of the input file
FastProbeFile ==
    /\ pc = "opened"
    /\ probeAtoms' = parseAtomsIn(file, 0, file.size).atoms
    /\ err' = parseAtomsIn(file, 0, file.size).err
    /\ pc' = IF err' = "nil" THEN "scanned" ELSE "unreadable"
    /\ UNCHANGED <<tracks, startTime, endTime, fileSize, cutTracks, reports, out,
                   fault, exists, moov, file, pipe>>

(***************************************************************************)
(* Input files of the probe.  A box of a layout is its type, its header    *)
(* form ("std": 32-bit size; "ext": size field 1 and a 64-bit size), the   *)
(* size it declares (-1: its true length), the length of its own payload   *)
(* and the boxes inside it.                                                *)
(***************************************************************************)
Box(type, payload, children) ==
    [type |-> type, hdr |-> "std", declared |-> -1, payload |-> payload,
     children |-> children]

HdrLen(b) == IF b.hdr = "ext" THEN 16 ELSE 8

\* The true length of a box and of the first k boxes of a sequence.
RECURSIVE BoxLen(_), BoxesLen(_, _)
BoxLen(b) == HdrLen(b) + b.payload + BoxesLen(b.children, Len(b.children))

BoxesLen(bs, k) == IF k = 0 THEN 0 ELSE BoxesLen(bs, k - 1) + BoxLen(bs[k])

\* The size a box declares.
Declared(b) == IF b.declared = -1 THEN BoxLen(b) ELSE b.declared

\* The bytes of a box and of the first k boxes of a sequence.
RECURSIVE BoxRuns(_), BoxesRuns(_, _)
BoxRuns(b) ==
    <<[w  |-> HdrLen(b),
       bs |-> IF b.hdr = "ext"
              THEN PutUint32(1) \o FourCC[b.type] \o PutUint32(0)
                       \o PutUint32(Declared(b))
              ELSE PutUint32(Declared(b)) \o FourCC[b.type]],
      [w |-> b.payload, bs |-> <<>>]>>
        \o BoxesRuns(b.children, Len(b.children))

BoxesRuns(bs, k) == IF k = 0 THEN <<>> ELSE BoxesRuns(bs, k - 1) \o BoxRuns(bs[k])

\* A trak with a track header and an edit box that holds an edit list.
TrakBox ==
    Box("trak", 0, <<Box("tkhd", 84, <<>>),
                     Box("edts", 0, <<Box("elst", 20, <<>>)>>)>>)

\* The top-level boxes of the layout p: ftyp (20 bytes), a moov of mvhd
\* (100 bytes) and p.n traks, and mdat (1000 bytes), moov before or after
\* mdat.  Box p.extAt has the extended header, the first trak has it when
\* p.trakExt; box p.declAt declares the size p.decl; mvhd declares 8 bytes
\* more than it has when p.overrun.
TopBoxes(p) ==
    LET mvhd == [Box("mvhd", 92, <<>>) EXCEPT
                    !.declared = IF p.overrun THEN 108 ELSE -1]
        traks == [i \in 1..p.n |->
                     [TrakBox EXCEPT !.hdr = IF p.trakExt /\ i = 1 THEN "ext" ELSE "std"]]
        moovBox == Box("moov", 0, <<mvhd>> \o traks)
        base == IF p.moovLast
                THEN <<Box("ftyp", 12, <<>>), Box("mdat", 992, <<>>), moovBox>>
                ELSE <<Box("ftyp", 12, <<>>), moovBox, Box("mdat", 992, <<>>)>>
    IN  [k \in 1..3 |->
            [base[k] EXCEPT !.hdr = IF p.extAt = k THEN "ext" ELSE "std",
                            !.declared = IF p.declAt = k THEN p.decl ELSE -1]]

\* The file of the boxes bs of which the last keeps `keep` bytes
\* (0: all of them, -1: all but one).
FileOf(bs, keep) ==
    [boxes |-> bs,
     data  |-> BoxesRuns(bs, Len(bs)),
     size  |-> IF keep = 0 THEN BoxesLen(bs, Len(bs))
               ELSE IF keep = -1 THEN BoxesLen(bs, Len(bs)) - 1
               ELSE BoxesLen(bs, Len(bs) - 1) + keep]

\* The layout of the probe test: ftyp, moov with mvhd alone, mdat.
PlainLayout ==
    [n |-> 0, moovLast |-> FALSE, extAt |-> 0, trakExt |-> FALSE, declAt |-> 0,
     decl |-> -1, overrun |-> FALSE, keep |-> 0]

\* Layouts with 0 .. MaxTracks traks, moov before or after mdat.
BaseLayouts ==
    {[PlainLayout EXCEPT !.n = n, !.moovLast = o] : n \in 0..MaxTracks, o \in BOOLEAN}

\* Well-formed layouts: plain, with the last box declared "to end of file",
\* with one top-level box or the first trak in the extended header form.
GoodLayouts ==
    BaseLayouts
        \cup {[p EXCEPT !.declAt = 3, !.decl = 0] : p \in BaseLayouts}
        \cup {[p EXCEPT !.extAt = k] : p \in BaseLayouts, k \in 1..3}
        \cup {[p EXCEPT !.trakExt = TRUE] : p \in {q \in BaseLayouts : q.n > 0}}

\* A top-level box that declares less than its header: 2 .. 7 in a 32-bit
\* size field, 8 or 15 in an extended one.
ShortLayouts ==
    {[p EXCEPT !.declAt = k, !.decl = d] : p \in BaseLayouts, k \in 1..3, d \in 2..7}
        \cup {[p EXCEPT !.declAt = k, !.extAt = k, !.decl = d] :
                 p \in BaseLayouts, k \in 1..3, d \in {8, 15}}

\* A last box cut short by the end of the file, in its payload or in its
\* header (with either header form), and an mvhd, the last box of its moov,
\* that reaches past the end of moov.
TruncatedLayouts ==
    {[p EXCEPT !.keep = c, !.extAt = e] :
        p \in BaseLayouts, c \in {-1, 12, 8, 4, 1}, e \in {0, 3}}
        \cup {[p EXCEPT !.overrun = TRUE] : p \in {q \in BaseLayouts : q.n = 0}}

InputLayouts == GoodLayouts \cup ShortLayouts \cup TruncatedLayouts

InitProbe ==
    /\ pc = "opened"
    /\ \E p \in InputLayouts : file = FileOf(TopBoxes(p), p.keep)
    /\ probeAtoms = <<>>
    /\ tracks = <<>>
    /\ startTime = 0
    /\ endTime = 0
    /\ fileSize = <<0, 0>>
    /\ cutTracks = <<>>
    /\ reports = <<>>
    /\ out = NoOut
    /\ fault = NoFault
    /\ err = "nil"
    /\ exists = FALSE
    /\ pipe = NoPipe
    /\ moov = NoAtom

NextProbe == FastProbeFile

SpecProbe == InitProbe /\ [][NextProbe]_vars

(***************************************************************************)
(* Properties of the probe.                                                *)
(***************************************************************************)
\* The atoms of the first k boxes of bs laid out from base: each with its
\* offset, its true length and its type, the boxes inside a container as
\* its children, from the end of its header on.
RECURSIVE RefAtoms(_, _, _)
RefAtoms(bs, k, base) ==
    IF k = 0 THEN <<>>
    ELSE RefAtoms(bs, k - 1, base)
         \o <<[Offset   |-> base + BoxesLen(bs, k - 1),
               Size     |-> BoxLen(bs[k]),
               Type     |-> FourCC[bs[k].type],
               Children |-> IF bs[k].type \in ContainerAtoms
                            THEN RefAtoms(bs[k].children, Len(bs[k].children),
                                          base + BoxesLen(bs, k - 1) + HdrLen(bs[k]))
                            ELSE <<>>]>>

\* Every box declares its true length; the last box of the file may declare
\* 0, "to the end of the file".
RECURSIVE SizesTrue(_, _)
SizesTrue(bs, top) ==
    \A k \in 1..Len(bs) :
        /\ \/ bs[k].declared = -1
           \/ top /\ k = Len(bs) /\ bs[k].declared = 0 /\ bs[k].hdr = "std"
        /\ SizesTrue(bs[k].children, FALSE)

\* A file that holds exactly its boxes, each of its declared size.
WellFormed(f) == f.size = BoxesLen(f.boxes, Len(f.boxes)) /\ SizesTrue(f.boxes, TRUE)

\* C23: the probe of a well-formed file returns its top-level boxes in file
\* order, each container with the boxes inside it in file order, every
\* other box without children.
C23_BoxesInFileOrder ==
    (pc \in {"scanned", "unreadable"} /\ WellFormed(file)) =>
        /\ pc = "scanned"
        /\ probeAtoms = RefAtoms(file.boxes, Len(file.boxes), 0)

\* The boxes of the first k of bs and of everything inside them, each with
\* its offset in the file.
RECURSIVE PlacedBoxes(_, _, _)
PlacedBoxes(bs, k, base) ==
    IF k = 0 THEN {}
    ELSE PlacedBoxes(bs, k - 1, base)
         \cup {[box |-> bs[k], off |-> base + BoxesLen(bs, k - 1)]}
         \cup PlacedBoxes(bs[k].children, Len(bs[k].children),
                          base + BoxesLen(bs, k - 1) + HdrLen(bs[k]))

\* The first k atoms of a list and all their descendants.
RECURSIVE AllAtoms(_, _)
AllAtoms(as, k) ==
    IF k = 0 THEN {}
    ELSE AllAtoms(as, k - 1) \cup {as[k]}
         \cup AllAtoms(as[k].Children, Len(as[k].Children))

\* C24: a box with size field 1 is recorded with the size of its 64-bit
\* field, and the children of such a container are the boxes from offset
\* + 16 on.
C24_ExtendedHeader ==
    (pc \in {"scanned", "unreadable"} /\ WellFormed(file)) =>
        \A x \in PlacedBoxes(file.boxes, Len(file.boxes), 0) :
            x.box.hdr = "ext" =>
                \E a \in AllAtoms(probeAtoms, Len(probeAtoms)) :
                    /\ a.Offset = x.off
                    /\ a.Type = FourCC[x.box.type]
                    /\ a.Size = BoxLen(x.box)
                    /\ x.box.type \in ContainerAtoms =>
                           a.Children = RefAtoms(x.box.children, Len(x.box.children),
                                                 x.off + 16)

\* A top-level box declares a size below the length of its header.
HasShortBox(f) ==
    \E k \in 1..Len(f.boxes) :
        /\ f.boxes[k].declared > 0
        /\ f.boxes[k].declared < HdrLen(f.boxes[k])
        /\ f.boxes[k].hdr = "std" => f.boxes[k].declared > 1

\* C25: the probe of a file with a box smaller than its header fails and
\* returns no boxes.
C25_ShortBoxRejected ==
    (pc \in {"scanned", "unreadable"} /\ HasShortBox(file)) =>
        /\ pc = "unreadable"
        /\ err # "nil"
        /\ probeAtoms = <<>>

\* A box inside b declares a size that reaches past the end of b.
RECURSIVE Overruns(_)
Overruns(b) ==
    \E i \in 1..Len(b.children) :
        \/ BoxesLen(b.children, i - 1) + Declared(b.children[i])
               > BoxesLen(b.children, Len(b.children))
        \/ Overruns(b.children[i])

\* The file ends inside its last box, or a box reaches past the end of the
\* container it is in.
Truncated(f) ==
    \/ f.size < BoxesLen(f.boxes, Len(f.boxes))
    \/ \E k \in 1..Len(f.boxes) : Overruns(f.boxes[k])

\* C26: the probe of a file whose last box is truncated fails.
C26_TruncatedBoxRejected ==
    (pc \in {"scanned", "unreadable"} /\ Truncated(file) /\ ~HasShortBox(file)) =>
        /\ pc = "unreadable"
        /\ err # "nil"

(***************************************************************************)
(* Cutting and writing tracks with composition offsets.                    *)
(***************************************************************************)
\* Video tracks of timescale 1 with n samples of duration 1, all of them
\* keyframes, and the composition offsets 10, 20, ... of their first m
\* samples; m = n is what the demuxer gives for a ctts that covers the
\* track.
CtsTrackSet ==
    UNION {{[UniformTrack(TrackTypeVideo, 1, n, 1, [i \in 1..n |-> TRUE],
                          [i \in 1..n |-> W(100)])
                EXCEPT !.CTSOffsets = [i \in 1..m |-> 10 * i]] :
               m \in 0..n} :
           n \in 1..MaxSamples}

InitCts ==
    /\ pc = "loaded"
    /\ tracks \in TrackLists(CtsTrackSet, CompanionTrackSet)
    /\ startTime \in 0..MaxHalfSec
    /\ endTime \in 0..MaxHalfSec
    /\ fileSize = InputEnd(tracks)
    /\ cutTracks = <<>>
    /\ reports = <<>>
    /\ out = NoOut
    /\ fault = NoFault
    /\ err = "nil"
    /\ exists = FALSE
    /\ pipe = NoPipe
    /\ file = NoFile
    /\ probeAtoms = <<>>
    /\ moov = NoAtom

SpecCts == InitCts /\ [][Next]_vars

\* The input track a cut track was made from: the cutter keeps the order of
\* the tracks, and in the inputs of SpecCts only the first track has
\* composition offsets.
CtsSource == tracks[1]

\* C27: a cut track with composition offsets has one offset per retained
\* sample, that of the sample it came from, and its written ctts has as
\* many entries as its stsz.
C27_CtsParallel ==
    (/\ pc \in {"cut", "written"}
     /\ Len(CtsSource.CTSOffsets) = Len(CtsSource.Samples)) =>
        \A k \in 1..Len(cutTracks) :
            Len(cutTracks[k].CTSOffsets) > 0 =>
                /\ Len(cutTracks[k].CTSOffsets) = Len(cutTracks[k].Samples)
                /\ \A j \in 1..Len(cutTracks[k].Samples) :
                       cutTracks[k].CTSOffsets[j] =
                           CtsSource.CTSOffsets[cutTracks[k].Samples[j].ID]
                /\ pc = "written" =>
                       /\ HasChild(StblOf(k - 1), "ctts")
                       /\ EntryCount(FindChild(StblOf(k - 1), "ctts"))
                              = Num(FindChild(StblOf(k - 1), "stsz").Data[3].v)

(***************************************************************************)
(* Frame of the cutter.                                                    *)
(***************************************************************************)
\* The cut track c is the input track t with a contiguous run of its
\* samples, unchanged, and every field other than the samples and the
\* composition offsets as in t.
WindowOf(c, t) ==
    /\ \E a \in 1..Len(t.Samples) :
           \E b \in a..Len(t.Samples) : c.Samples = SubSeq(t.Samples, a, b)
    /\ [c EXCEPT !.Samples = <<>>, !.CTSOffsets = <<>>]
           = [t EXCEPT !.Samples = <<>>, !.CTSOffsets = <<>>]

\* The returned tracks are windows of input tracks, in the order of the
\* input.
CutFrame ==
    pc = "cut" =>
        \E f \in [1..Len(cutTracks) -> 1..Len(tracks)] :
            /\ \A j, k \in 1..Len(cutTracks) : j < k => f[j] < f[k]
            /\ \A k \in 1..Len(cutTracks) : WindowOf(cutTracks[k], tracks[f[k]])

\* C28: Cut changes nothing but the sample window: the returned tracks are
\* in the order of the input, each with a contiguous run of the samples of
\* its input track, unchanged, and with every other field left as it was;
\* the cutter never modifies its input tracks.
C28_CutFrame == [](CutFrame) /\ [][tracks' = tracks]_vars

\* Two tracks are cut to windows that start after their first sample and
\* end before their last.
C28_Witness ==
    /\ pc = "cut"
    /\ Len(tracks) = 2
    /\ Len(cutTracks) = 2
    /\ Len(tracks[1].Samples) = 3
    /\ Len(cutTracks[1].Samples) = 1
    /\ cutTracks[1].Samples[1].ID = 2

\* C29: for a track with at least one sample the start index never exceeds
\* the end index, whatever the requested times: exactly the tracks without
\* samples are dropped, and every returned track has a sample.
C29_NeverEmptyWindow ==
    pc = "cut" =>
        /\ \A k \in 1..Len(tracks) :
               Len(tracks[k].Samples) > 0 =>
                   FindCutPoints(tracks[k], startTime, endTime).startIdx
                       <= FindCutPoints(tracks[k], startTime, endTime).endIdx
        /\ Len(cutTracks) =
               Cardinality({k \in 1..Len(tracks) : Len(tracks[k].Samples) > 0})
        /\ \A k \in 1..Len(cutTracks) : Len(cutTracks[k].Samples) >= 1

\* A request with start after end on a track without samples and a track
\* with samples: the first is dropped, the second returned.
C29_Witness ==
    /\ pc = "cut"
    /\ startTime > endTime
    /\ Len(tracks) = 2
    /\ tracks[1].Samples = <<>>
    /\ Len(cutTracks) = 1
    /\ Len(cutTracks[1].Samples) = 1

(***************************************************************************)
(* RunPipelined: Segmenter -> Jobs -> workers -> Results -> consumer.      *)
(*                                                                         *)
(* pipe holds the channels (their buffered elements and whether they are   *)
(* closed), the WaitGroup counter, the position of the Segmenter and the   *)
(* position of every goroutine: the producer, the workers, the goroutine   *)
(* of pool.Wait and the caller, which consumes the results.  A channel     *)
(* operation is one step; a goroutine blocked on a channel is a goroutine  *)
(* whose step is not enabled.  processed lists, for every job a worker     *)
(* took, the GOP and the worker.                                           *)
(***************************************************************************)
\* The end of the GOP that starts before `end`: the next keyframe or the
\* end of the samples.
RECURSIVE GopEnd(_, _)
GopEnd(samples, end) ==
    IF end < Len(samples) /\ ~samples[end + 1].IsKeyframe
    THEN GopEnd(samples, end + 1)
    ELSE end

\* Segmenter.NextGOP at position current < len(samples)
NextGOP(samples, current) ==
    [ID      |-> current,
     Samples |-> SubSeq(samples, current + 1, GopEnd(samples, current + 1))]

\* The IDs of the GOPs NextGOP returns from position current on.
RECURSIVE GopIDs(_, _)
GopIDs(samples, current) ==
    IF current >= Len(samples) THEN {}
    ELSE {current} \cup GopIDs(samples, GopEnd(samples, current + 1))

\* make(chan ..., workers*2)
ChanCap(workers) == workers * 2

\* Producer goroutine: "gop := segmenter.NextGOP(); if gop == nil {
\* close(pool.Jobs); break }; pool.Jobs <- gop"
Producer ==
    /\ pipe.state = "running"
    /\ pipe.producer = "running"
    /\ IF pipe.current >= Len(pipe.samples)
       THEN pipe' = [pipe EXCEPT !.jobsClosed = TRUE, !.producer = "done"]
       ELSE /\ Len(pipe.jobs) < ChanCap(pipe.workers)
            /\ pipe' = [pipe EXCEPT
                   !.jobs = Append(@, NextGOP(pipe.samples, pipe.current)),
                   !.current = GopEnd(pipe.samples, pipe.current + 1)]
    /\ UNCHANGED <<pc, tracks, startTime, endTime, fileSize, cutTracks, reports, out,
                   fault, err, exists, moov, file, probeAtoms>>

\* Worker w at "for gop := range wp.Jobs": it takes a job and runs the
\* processor, or leaves the loop when Jobs is closed and drained and runs
\* the deferred wp.wg.Done().
WorkerReceive(w) ==
    /\ pipe.state = "running"
    /\ w \in 1..pipe.workers
    /\ pipe.worker[w].at = "range"
    /\ IF pipe.jobs # <<>>
       THEN pipe' = [pipe EXCEPT
                !.jobs = Tail(@),
                !.worker[w] = [at |-> "send", gop |-> Head(pipe.jobs).ID],
                !.processed = Append(@, [gop |-> Head(pipe.jobs).ID, by |-> w])]
       ELSE /\ pipe.jobsClosed
            /\ pipe' = [pipe EXCEPT !.worker[w] = [at |-> "done", gop |-> -1],
                                    !.wg = @ - 1]
    /\ UNCHANGED <<pc, tracks, startTime, endTime, fileSize, cutTracks, reports, out,
                   fault, err, exists, moov, file, probeAtoms>>

\* Worker w at "wp.Results <- Result{...}": a send on a closed channel
\* panics.
WorkerSend(w) ==
    /\ pipe.state = "running"
    /\ w \in 1..pipe.workers
    /\ pipe.worker[w].at = "send"
    /\ IF pipe.resultsClosed
       THEN pipe' = [pipe EXCEPT !.panic = TRUE,
                                 !.worker[w] = [at |-> "done", gop |-> -1]]
       ELSE /\ Len(pipe.results) < ChanCap(pipe.workers)
            /\ pipe' = [pipe EXCEPT
                   !.results = Append(@, [GOPID |-> pipe.worker[w].gop,
                                          Err   |-> pipe.worker[w].gop \in pipe.failing]),
                   !.worker[w] = [at |-> "range", gop |-> -1]]
    /\ UNCHANGED <<pc, tracks, startTime, endTime, fileSize, cutTracks, reports, out,
                   fault, err, exists, moov, file, probeAtoms>>

\* WorkerPool.Wait in its goroutine: "wp.wg.Wait(); close(wp.Results)"
Wait ==
    /\ pipe.state = "running"
    /\ pipe.waiter = "waiting"
    /\ pipe.wg = 0
    /\ pipe' = [pipe EXCEPT !.resultsClosed = TRUE, !.waiter = "done"]
    /\ UNCHANGED <<pc, tracks, startTime, endTime, fileSize, cutTracks, reports, out,
                   fault, err, exists, moov, file, probeAtoms>>

\* The caller at "for res := range pool.Results": it returns the error of a
\* result, counts any other result, and returns nil when Results is closed
\* and drained.
Consumer ==
    /\ pipe.state = "running"
    /\ pipe.consumer = "range"
    /\ IF pipe.results # <<>>
       THEN IF Head(pipe.results).Err
            THEN pipe' = [pipe EXCEPT !.results = Tail(@), !.consumer = "returned",
                                      !.ret = "error"]
            ELSE pipe' = [pipe EXCEPT !.results = Tail(@), !.count = @ + 1]
       ELSE /\ pipe.resultsClosed
            /\ pipe' = [pipe EXCEPT !.consumer = "returned", !.ret = "nil"]
    /\ UNCHANGED <<pc, tracks, startTime, endTime, fileSize, cutTracks, reports, out,
                   fault, err, exists, moov, file, probeAtoms>>

\* Sample lists of up to MaxPipeSamples samples with any keyframe flags.
PipeSamples ==
    UNION {{MkSamples([i \in 1..n |-> 1], kf, [i \in 1..n |-> W(100)], <<0, 4096>>) :
               kf \in [1..n -> BOOLEAN]} :
           n \in 0..MaxPipeSamples}

\* RunPipelined(samples, workers, processor) after pool.Start and the two
\* go statements; the processor returns an error for the GOPs of failing.
InitPipelined ==
    /\ \E samples \in PipeSamples, workers \in 1..MaxWorkers :
           \E failing \in SUBSET GopIDs(samples, 0) :
               pipe = [state         |-> "running",
                       samples       |-> samples,
                       workers       |-> workers,
                       failing       |-> failing,
                       current       |-> 0,
                       jobs          |-> <<>>,
                       jobsClosed    |-> FALSE,
                       results       |-> <<>>,
                       resultsClosed |-> FALSE,
                       wg            |-> workers,
                       producer      |-> "running",
                       worker        |-> [w \in 1..workers |-> [at |-> "range", gop |-> -1]],
                       waiter        |-> "waiting",
                       consumer      |-> "range",
                       ret           |-> "none",
                       count         |-> 0,
                       processed     |-> <<>>,
                       panic         |-> FALSE]
    /\ pc = "pipelined"
    /\ tracks = <<>>
    /\ startTime = 0
    /\ endTime = 0
    /\ fileSize = <<0, 0>>
    /\ cutTracks = <<>>
    /\ reports = <<>>
    /\ out = NoOut
    /\ fault = NoFault
    /\ err = "nil"
    /\ moov = NoAtom
    /\ file = NoFile
    /\ probeAtoms = <<>>
    /\ exists = FALSE

NextPipelined ==
    \/ Producer
    \/ \E w \in 1..MaxWorkers : WorkerReceive(w)
    \/ \E w \in 1..MaxWorkers : WorkerSend(w)
    \/ Wait
    \/ Consumer

\* Every goroutine that can take a step eventually takes one.
SpecPipelined ==
    /\ InitPipelined
    /\ [][NextPipelined]_vars
    /\ WF_vars(Producer)
    /\ \A w \in 1..MaxWorkers : WF_vars(WorkerReceive(w)) /\ WF_vars(WorkerSend(w))
    /\ WF_vars(Wait)
    /\ WF_vars(Consumer)

\* Every job was taken by one worker only, nothing was sent on the closed
\* Results channel, Results is closed only when every worker has exited,
\* and a nil return means every GOP was processed.
PipelineSafe ==
    pipe.state = "running" =>
        /\ \A i, j \in 1..Len(pipe.processed) :
               pipe.processed[i].gop = pipe.processed[j].gop => i = j
        /\ ~pipe.panic
        /\ pipe.resultsClosed => \A w \in 1..pipe.workers : pipe.worker[w].at = "done"
        /\ pipe.ret = "nil" =>
               {pipe.processed[i].gop : i \in 1..Len(pipe.processed)}
                   = GopIDs(pipe.samples, 0)

\* Every goroutine has exited and RunPipelined has returned.
AllExited ==
    /\ pipe.consumer = "returned"
    /\ pipe.producer = "done"
    /\ pipe.waiter = "done"
    /\ \A w \in 1..pipe.workers : pipe.worker[w].at = "done"

\* C30: RunPipelined returns; every GOP is processed by one worker; Results
\* is closed only after all workers exited; and after the return, with nil
\* or with an error, the producer and every worker eventually exit.
C30_PipelineExits ==
    /\ []PipelineSafe
    /\ <>(pipe.consumer = "returned")
    /\ <>[]AllExited

====
